---- MODULE Spec2Model ----
(***************************************************************************)
(* Determa: the language pipeline (type checker, symbol table, compiler,   *)
(* virtual machine) as a state machine.                                    *)
(*                                                                         *)
(* Two entry points drive the machine:                                     *)
(*   - the interactive prompt of main.c (run_repl_mode / run_source):      *)
(*     parse -> typecheck_ast -> compile_ast -> interpret, on one          *)
(*     persistent VM, type-checker table and compiler global table;        *)
(*   - the test harness (run_and_get_result): init_vm(); interpret(fn) on  *)
(*     a function object holding bytecode.                                 *)
(* The VM executes one instruction per step.                               *)
(***************************************************************************)
EXTENDS Integers, Sequences, FiniteSets, TLC

VARIABLES
    mode,           \* "repl" (main.c) or "harness" (tests calling interpret)
    pc,             \* "prompt" | "run" | "crashed" | "exited"
    nInputs,        \* inputs entered so far in this session
    lastInput,      \* name of the input being / last processed
    stages,         \* which pipeline stages ran for lastInput
    result,         \* InterpretResult of the last interpret call
    prevResult,     \* result of the input before lastInput
    stack,          \* vm.stack memory, slot i of C is stack[i+1]
    stackTop,       \* vm.stackTop - vm.stack
    frames,         \* vm.frames[0..frameCount-1]
    frameCount,     \* vm.frameCount
    globals,        \* vm.globals, slot i of C is globals[i+1]
    heap,           \* heap objects, vm.objects threads them newest first
    script,         \* the chunk local to run_source (function id 0)
    out,            \* values printed by OP_PRINT during the current run
    errmsg,         \* message of the last runtimeError
    trace,          \* stack trace printed by the last runtimeError
    popped,         \* value discarded by the last OP_POP of the current run
    oob,            \* an access outside vm.stack happened in the current run
    globalSymbols,  \* typechecker.c globalSymbols, the persistent SymbolTable
    tcErrors,       \* diagnostics printed by the last typecheck_ast
    tcUaf,          \* a freed symbol name was read or freed again
    globalNames,    \* compiler.c globalSymbols[0..globalCount-1]
    mem,            \* allocator and collector state of the VM (memory.c)
    parser,         \* the Parser struct and the progress of parse()
    checker         \* the last call made to the symbol table or type checker

vars == <<mode, pc, nInputs, lastInput, stages, result, prevResult, stack,
          stackTop, frames, frameCount, globals, heap, script, out, errmsg,
          trace, popped, oob, globalSymbols, tcErrors, tcUaf, globalNames,
          mem, parser, checker>>

(***************************************************************************)
(* Bounds of the model                                                     *)
(***************************************************************************)
MaxInputs == 2
\* objects allocated in one life of the VM, and operand stack depth, in the
\* runs that exercise the collector
MaxHeap == 3
MaxStack == 2
\* tokens of a source given to parse(), and iterations of its statement
\* loop that are followed
MaxTokens == 4
MaxStatements == 6
\* binary operators in one expression given to parse()
MaxOperators == 3
\* characters of a source given to the lexer, and calls of get_next_token
MaxChars == 4
MaxCalls == 6
\* scope depth and number of symbols in the runs that call the symbol table
MaxDepth == 1
MaxSymbols == 3

(***************************************************************************)
(* Program constants                                                       *)
(***************************************************************************)
STACK_MAX   == 256
GLOBALS_MAX == 256
FRAMES_MAX  == 64
UINT16_MAX  == 65535
SYMBOL_INIT_CAPACITY == 16

\* ValueType
VAL_BOOL == 0
VAL_INT  == 1
VAL_OBJ  == 2

\* ObjType
OBJ_STRING   == 0
OBJ_FUNCTION == 1

\* DataType
TYPE_VOID   == 0
TYPE_INT    == 1
TYPE_BOOL   == 2
TYPE_STRING == 3
TYPE_ERROR  == 4

\* OpCode
OP_CONSTANT      == 0
OP_TRUE          == 1
OP_FALSE         == 2
OP_ADD           == 3
OP_SUBTRACT      == 4
OP_MULTIPLY      == 5
OP_DIVIDE        == 6
OP_MODULO        == 7
OP_NEGATE        == 8
OP_NOT           == 9
OP_EQUAL         == 10
OP_GREATER       == 11
OP_LESS          == 12
OP_GET_GLOBAL    == 13
OP_SET_GLOBAL    == 14
OP_GET_LOCAL     == 15
OP_SET_LOCAL     == 16
OP_POP           == 17
OP_JUMP          == 18
OP_JUMP_IF_FALSE == 19
OP_LOOP          == 20
OP_PRINT         == 21
OP_RETURN        == 22
OP_CALL          == 23

\* InterpretResult
INTERPRET_OK            == "INTERPRET_OK"
INTERPRET_COMPILE_ERROR == "INTERPRET_COMPILE_ERROR"
INTERPRET_RUNTIME_ERROR == "INTERPRET_RUNTIME_ERROR"
NO_RESULT               == "NO_RESULT"

(***************************************************************************)
(* Values and heap objects                                                 *)
(***************************************************************************)
BOOL_VAL(b) == [type |-> VAL_BOOL, as |-> IF b THEN 1 ELSE 0]
INT_VAL(i)  == [type |-> VAL_INT,  as |-> i]
OBJ_VAL(o)  == [type |-> VAL_OBJ,  as |-> o]

IS_BOOL(v) == v.type = VAL_BOOL
IS_INT(v)  == v.type = VAL_INT
IS_OBJ(v)  == v.type = VAL_OBJ
AS_BOOL(v) == v.as # 0
AS_INT(v)  == v.as

\* static storage is zero-filled: type 0 is VAL_BOOL, payload 0
ZeroValue == [type |-> VAL_BOOL, as |-> 0]

EmptyChunk == [code |-> <<>>, lines |-> <<>>, constants |-> <<>>]

\* name = 0 is the NULL name of the top-level script
StringObj(cs) ==
    [type |-> OBJ_STRING, isMarked |-> FALSE, chars |-> cs,
     arity |-> 0, name |-> 0, chunk |-> EmptyChunk]

FunctionObj(nm, ar, ch) ==
    [type |-> OBJ_FUNCTION, isMarked |-> FALSE, chars |-> "",
     arity |-> ar, name |-> nm, chunk |-> ch]

IsObjType(h, v, t) == IS_OBJ(v) /\ v.as \in 1..Len(h) /\ h[v.as].type = t
IS_STRING(h, v)   == IsObjType(h, v, OBJ_STRING)
IS_FUNCTION(h, v) == IsObjType(h, v, OBJ_FUNCTION)

values_equal(h, a, b) ==
    IF a.type # b.type THEN FALSE
    ELSE IF a.type = VAL_BOOL THEN AS_BOOL(a) = AS_BOOL(b)
    ELSE IF a.type = VAL_INT THEN AS_INT(a) = AS_INT(b)
    ELSE IF a.as = b.as THEN TRUE
    ELSE IF IS_STRING(h, a) /\ IS_STRING(h, b)
         THEN h[a.as].chars = h[b.as].chars
    ELSE FALSE

Abs(x) == IF x < 0 THEN -x ELSE x

\* C division truncates toward zero
CDiv(a, b) ==
    LET q == Abs(a) \div Abs(b)
    IN  IF (a < 0) = (b < 0) THEN q ELSE -q

CMod(a, b) == a - b * CDiv(a, b)

(***************************************************************************)
(* Chunks                                                                  *)
(***************************************************************************)
write_chunk(ch, byte, line) ==
    [ch EXCEPT !.code = Append(@, byte), !.lines = Append(@, line)]

\* returns the chunk; the index of the new constant is Len(constants) - 1
add_constant(ch, value) ==
    [ch EXCEPT !.constants = Append(@, value)]

(***************************************************************************)
(* The virtual machine (vm.c).  A machine record M gathers the VM struct,  *)
(* the heap and the two output streams; the operators below transform it   *)
(* as the C functions transform the global `vm`.  stackTop is the number   *)
(* of values between vm.stack and vm.stackTop.  The parameter u of the     *)
(* instruction operators is what an access outside vm.stack observes:      *)
(* u.val is the value such a read returns, u.fc the value vm.frameCount    *)
(* holds after a write below the stack base (frameCount is the struct     *)
(* member just before the stack).  A write at or above vm.stack[STACK_MAX] *)
(* overwrites the member after the stack, vm.stackTop itself: the process  *)
(* has no defined behaviour from there on, which halt = "CRASH" records.   *)
(***************************************************************************)
\* s with s[i] = v, zero-filled up to i when s is shorter
SeqSet(s, i, v) ==
    [k \in 1..(IF i > Len(s) THEN i ELSE Len(s)) |->
        IF k = i THEN v ELSE IF k <= Len(s) THEN s[k] ELSE ZeroValue]

SeqGet(s, i) == IF i \in 1..Len(s) THEN s[i] ELSE ZeroValue

\* vm.stack[i]
ReadAt(M, i, u) ==
    IF i >= 0 /\ i < STACK_MAX THEN SeqGet(M.stack, i + 1) ELSE u.val

InStack(i) == i >= 0 /\ i < STACK_MAX

\* vm.stack[i] = v
WriteAt(M, i, v, u) ==
    IF i < 0 THEN [M EXCEPT !.oob = TRUE, !.frameCount = u.fc]
    ELSE IF i < STACK_MAX THEN [M EXCEPT !.stack = SeqSet(@, i + 1, v)]
    ELSE [M EXCEPT !.oob = TRUE, !.halt = "CRASH"]

reset_stack(M) ==
    [M EXCEPT !.stackTop = 0, !.frameCount = 0, !.frames = <<>>]

\* no VM_STACK_CHECK in the build: the store is unconditional
push(M, value, u) ==
    [WriteAt(M, M.stackTop, value, u) EXCEPT !.stackTop = M.stackTop + 1]

\* the machine after pop(); the value popped is PopVal
pop(M) ==
    [M EXCEPT !.stackTop = M.stackTop - 1,
              !.oob = @ \/ ~InStack(M.stackTop - 1)]

PopVal(M, u) == ReadAt(M, M.stackTop - 1, u)

peek(M, distance, u) == ReadAt(M, M.stackTop - 1 - distance, u)

\* function id 0 is the chunk run_source compiled, wrapped as the script
Fn(M, id) ==
    IF id = 0 THEN FunctionObj(0, 0, M.script) ELSE M.heap[id]

FRAME(M) == M.frames[M.frameCount]

FnNameText(M, f) ==
    IF f.name = 0 THEN "script" ELSE M.heap[f.name].chars

\* runtimeError that reports but leaves the stack and the frames in place
runtimeError_NoReset(M, msg) ==
    [M EXCEPT !.errmsg = msg, !.halt = INTERPRET_RUNTIME_ERROR]

\* message, then one trace line per frame, innermost first, then reset
runtimeError(M, msg) ==
    LET entry(i) ==
            LET fr == M.frames[i]
                f  == Fn(M, fr.function)
            IN  [line |-> SeqGet(f.chunk.lines, fr.ip), name |-> FnNameText(M, f)]
        tr == [k \in 1..M.frameCount |-> entry(M.frameCount + 1 - k)]
    IN  [reset_stack(M) EXCEPT !.errmsg = msg, !.trace = tr,
                               !.halt = INTERPRET_RUNTIME_ERROR]

\* call that pushes its frame whatever the frame count is
call_NoFrameLimit(M, function, argCount) ==
    IF argCount # M.heap[function].arity
    THEN runtimeError(M, "Expected %d arguments but got %d.")
    ELSE [M EXCEPT !.frameCount = @ + 1,
                   !.frames = Append(@, [function |-> function, ip |-> 0,
                                         slots |-> M.stackTop - argCount - 1])]

\* call that pushes its frame whatever the argument count is
call_NoArityCheck(M, function, argCount) ==
    IF M.frameCount = FRAMES_MAX
    THEN runtimeError(M, "Stack overflow.")
    ELSE [M EXCEPT !.frameCount = @ + 1,
                   !.frames = Append(@, [function |-> function, ip |-> 0,
                                         slots |-> M.stackTop - argCount - 1])]

call(M, function, argCount) ==
    LET f == M.heap[function]
    IN  IF argCount # f.arity
        THEN runtimeError(M, "Expected %d arguments but got %d.")
        ELSE IF M.frameCount = FRAMES_MAX
        THEN runtimeError(M, "Stack overflow.")
        ELSE [M EXCEPT !.frameCount = @ + 1,
                       !.frames = Append(@, [function |-> function, ip |-> 0,
                                             slots |-> M.stackTop - argCount - 1])]

callValue(M, callee, argCount) ==
    IF IS_FUNCTION(M.heap, callee)
    THEN call(M, callee.as, argCount)
    ELSE runtimeError(M, "Can only call functions and classes.")

\* what print_value writes for a value
Printed(M, v) ==
    IF IS_STRING(M.heap, v) THEN [type |-> VAL_OBJ, as |-> 0, text |-> M.heap[v.as].chars]
    ELSE IF IS_FUNCTION(M.heap, v)
         THEN [type |-> VAL_OBJ, as |-> 0,
               text |-> IF M.heap[v.as].name = 0 THEN "<script>"
                        ELSE "<fn " \o M.heap[M.heap[v.as].name].chars \o ">"]
    ELSE [type |-> v.type, as |-> v.as, text |-> ""]

\* the frame's ip moved by d bytes
Adv(M, d) == [M EXCEPT !.frames[M.frameCount].ip = @ + d]

\* the byte at offset k after the current ip
ByteAt(M, k) == Fn(M, FRAME(M).function).chunk.code[FRAME(M).ip + 1 + k]

ShortAt(M) == ByteAt(M, 0) * 256 + ByteAt(M, 1)

\* concatenate(a, b): a new string object at the head of vm.objects
concatenate(M, a, b) ==
    [M EXCEPT !.heap = Append(@, StringObj(M.heap[a].chars \o M.heap[b].chars))]

\* the result of the integer instruction on a and b
IntOp(instruction, a, b) ==
    CASE instruction = OP_ADD      -> INT_VAL(a + b)
      [] instruction = OP_SUBTRACT -> INT_VAL(a - b)
      [] instruction = OP_MULTIPLY -> INT_VAL(a * b)
      [] instruction = OP_DIVIDE   -> INT_VAL(CDiv(a, b))
      [] instruction = OP_MODULO   -> INT_VAL(CMod(a, b))
      [] instruction = OP_GREATER  -> BOOL_VAL(a > b)
      [] instruction = OP_LESS     -> BOOL_VAL(a < b)

\* BINARY_OP and the integer comparisons; M has the opcode consumed
BinaryInt(M, u, instruction) ==
    IF ~IS_INT(peek(M, 0, u)) \/ ~IS_INT(peek(M, 1, u))
    THEN runtimeError(M, "Operands must be numbers.")
    ELSE LET b  == AS_INT(PopVal(M, u))
             M1 == pop(M)
             a  == AS_INT(PopVal(M1, u))
             M2 == pop(M1)
         IN  push(M2, IntOp(instruction, a, b), u)

Op_CONSTANT(M, u) ==
    LET cs == Fn(M, FRAME(M).function).chunk.constants
        ix == ByteAt(M, 0)
    IN  push(Adv(M, 1), IF ix + 1 \in 1..Len(cs) THEN cs[ix + 1] ELSE u.val, u)

Op_GET_GLOBAL(M, u) == push(Adv(M, 1), SeqGet(M.globals, ByteAt(M, 0) + 1), u)

Op_SET_GLOBAL(M, u) ==
    [Adv(M, 1) EXCEPT !.globals = SeqSet(@, ByteAt(M, 0) + 1, peek(M, 0, u))]

Op_GET_LOCAL(M, u) ==
    push(Adv(M, 1), ReadAt(M, FRAME(M).slots + ByteAt(M, 0), u), u)

Op_SET_LOCAL(M, u) ==
    WriteAt(Adv(M, 1), FRAME(M).slots + ByteAt(M, 0), peek(M, 0, u), u)

Op_POP(M, u) == [pop(M) EXCEPT !.popped = PopVal(M, u)]

Op_JUMP(M, u) == Adv(M, 2 + ShortAt(M))

Op_JUMP_IF_FALSE(M, u) ==
    IF IS_BOOL(peek(M, 0, u)) /\ ~AS_BOOL(peek(M, 0, u))
    THEN Adv(M, 2 + ShortAt(M))
    ELSE Adv(M, 2)

Op_LOOP(M, u) == Adv(M, 2 - ShortAt(M))

Op_CALL(M, u) ==
    LET argCount == ByteAt(M, 0)
    IN  callValue(Adv(M, 1), peek(M, argCount, u), argCount)

Op_EQUAL(M, u) ==
    LET b  == PopVal(M, u)
        M1 == pop(M)
        a  == PopVal(M1, u)
    IN  push(pop(M1), BOOL_VAL(values_equal(M.heap, a, b)), u)

Op_NOT(M, u) ==
    LET v == PopVal(M, u)
    IN  IF ~IS_BOOL(v) THEN runtimeError(pop(M), "Operand must be boolean.")
        ELSE push(pop(M), BOOL_VAL(~AS_BOOL(v)), u)

Op_ADD(M, u) ==
    IF IS_STRING(M.heap, peek(M, 0, u)) /\ IS_STRING(M.heap, peek(M, 1, u))
    THEN LET b  == PopVal(M, u).as
             M1 == pop(M)
             a  == PopVal(M1, u).as
             M2 == concatenate(pop(M1), a, b)
         IN  push(M2, OBJ_VAL(Len(M2.heap)), u)
    ELSE IF IS_INT(peek(M, 0, u)) /\ IS_INT(peek(M, 1, u))
    THEN BinaryInt(M, u, OP_ADD)
    ELSE runtimeError(M, "Operands must be two numbers or two strings.")

Op_DIVIDE(M, u) ==
    IF ~IS_INT(peek(M, 0, u)) \/ ~IS_INT(peek(M, 1, u))
    THEN runtimeError(M, "Operands must be numbers.")
    ELSE IF AS_INT(peek(M, 0, u)) = 0
    THEN runtimeError(M, "Division by zero.")
    ELSE BinaryInt(M, u, OP_DIVIDE)

\* OP_MODULO with no test of the divisor: a % 0 raises SIGFPE
Op_MODULO_NoZeroCheck(M, u) ==
    IF ~IS_INT(peek(M, 0, u)) \/ ~IS_INT(peek(M, 1, u))
    THEN runtimeError(M, "Operands must be numbers.")
    ELSE IF AS_INT(peek(M, 0, u)) = 0
    THEN [M EXCEPT !.halt = "CRASH"]
    ELSE BinaryInt(M, u, OP_MODULO)

Op_MODULO(M, u) ==
    IF ~IS_INT(peek(M, 0, u)) \/ ~IS_INT(peek(M, 1, u))
    THEN runtimeError(M, "Operands must be numbers.")
    ELSE IF AS_INT(peek(M, 0, u)) = 0
    THEN runtimeError(M, "Modulo by zero.")
    ELSE BinaryInt(M, u, OP_MODULO)

Op_NEGATE(M, u) ==
    IF ~IS_INT(peek(M, 0, u))
    THEN runtimeError(M, "Operand must be a number.")
    ELSE push(pop(M), INT_VAL(-AS_INT(PopVal(M, u))), u)

Op_PRINT(M, u) ==
    [pop(M) EXCEPT !.out = Append(@, Printed(M, PopVal(M, u)))]

\* OP_RETURN that drops the frame but pushes the result above the callee's slots
Op_RETURN_KeepTop(M, u) ==
    LET res == PopVal(M, u)
        M1  == pop(M)
        M2  == [M1 EXCEPT !.frameCount = @ - 1,
                          !.frames = SubSeq(@, 1, M1.frameCount - 1)]
    IN  IF M2.frameCount = 0
        THEN [push(M2, res, u) EXCEPT !.halt = INTERPRET_OK]
        ELSE push(M2, res, u)

Op_RETURN(M, u) ==
    LET res   == PopVal(M, u)
        M1    == pop(M)
        frame == FRAME(M1)
        M2    == [M1 EXCEPT !.frameCount = @ - 1,
                            !.frames = SubSeq(@, 1, M1.frameCount - 1)]
    IN  IF M2.frameCount = 0
        THEN [push(M2, res, u) EXCEPT !.halt = INTERPRET_OK]
        ELSE push([M2 EXCEPT !.stackTop = frame.slots], res, u)

\* one iteration of the loop of run(): fetch, advance, dispatch
Exec(M, u) ==
    LET instruction == ByteAt(M, 0)
        M1 == Adv(M, 1)
    IN  CASE instruction = OP_CONSTANT      -> Op_CONSTANT(M1, u)
          [] instruction = OP_TRUE          -> push(M1, BOOL_VAL(TRUE), u)
          [] instruction = OP_FALSE         -> push(M1, BOOL_VAL(FALSE), u)
          [] instruction = OP_GET_GLOBAL    -> Op_GET_GLOBAL(M1, u)
          [] instruction = OP_SET_GLOBAL    -> Op_SET_GLOBAL(M1, u)
          [] instruction = OP_GET_LOCAL     -> Op_GET_LOCAL(M1, u)
          [] instruction = OP_SET_LOCAL     -> Op_SET_LOCAL(M1, u)
          [] instruction = OP_POP           -> Op_POP(M1, u)
          [] instruction = OP_JUMP          -> Op_JUMP(M1, u)
          [] instruction = OP_JUMP_IF_FALSE -> Op_JUMP_IF_FALSE(M1, u)
          [] instruction = OP_LOOP          -> Op_LOOP(M1, u)
          [] instruction = OP_CALL          -> Op_CALL(M1, u)
          [] instruction = OP_EQUAL         -> Op_EQUAL(M1, u)
          [] instruction = OP_GREATER       -> BinaryInt(M1, u, OP_GREATER)
          [] instruction = OP_LESS          -> BinaryInt(M1, u, OP_LESS)
          [] instruction = OP_NOT           -> Op_NOT(M1, u)
          [] instruction = OP_ADD           -> Op_ADD(M1, u)
          [] instruction = OP_SUBTRACT      -> BinaryInt(M1, u, OP_SUBTRACT)
          [] instruction = OP_MULTIPLY      -> BinaryInt(M1, u, OP_MULTIPLY)
          [] instruction = OP_DIVIDE        -> Op_DIVIDE(M1, u)
          [] instruction = OP_MODULO        -> Op_MODULO(M1, u)
          [] instruction = OP_NEGATE        -> Op_NEGATE(M1, u)
          [] instruction = OP_PRINT         -> Op_PRINT(M1, u)
          [] instruction = OP_RETURN        -> Op_RETURN(M1, u)
          [] OTHER                          -> M1

(***************************************************************************)
(* AST nodes (ast.h).  NULL stands for a null AstNode pointer.             *)
(***************************************************************************)
NULL == [type |-> "NULL", line |-> 0]
IsNull(node) == node.type = "NULL"

IntLit(n)        == [type |-> "NODE_INT_LITERAL", line |-> 1, value |-> n]
StrLit(str)      == [type |-> "NODE_STRING_LITERAL", line |-> 1, value |-> str]
BoolLit(b)       == [type |-> "NODE_BOOL_LITERAL", line |-> 1, value |-> b]
Var(nm)          == [type |-> "NODE_VAR_ACCESS", line |-> 1, name |-> nm]
Unary(o, e)      == [type |-> "NODE_UNARY_OP", line |-> 1, op |-> o, operand |-> e]
Binary(o, l, r)  == [type |-> "NODE_BINARY_OP", line |-> 1, op |-> o,
                     left |-> l, right |-> r]
Assign(nm, e)    == [type |-> "NODE_VAR_ASSIGN", line |-> 1, name |-> nm, value |-> e]
CallExpr(nm, as) == [type |-> "NODE_CALL", line |-> 1, name |-> nm, args |-> as]

VarDecl(nm, e)   == [type |-> "NODE_VAR_DECL", line |-> 1, name |-> nm, init |-> e]
PrintStmt(e)     == [type |-> "NODE_PRINT_STMT", line |-> 1, expression |-> e]
ExprStmt(e)      == [type |-> "NODE_EXPR_STMT", line |-> 1, expression |-> e]
Block(ss)        == [type |-> "NODE_BLOCK", line |-> 1, statements |-> ss]
IfStmt(c, t, e)  == [type |-> "NODE_IF", line |-> 1, condition |-> c,
                     thenBranch |-> t, elseBranch |-> e]
WhileStmt(c, b)  == [type |-> "NODE_WHILE", line |-> 1, condition |-> c, body |-> b]
ReturnStmt(e)    == [type |-> "NODE_RETURN", line |-> 1, value |-> e]
Program(ss)      == [type |-> "NODE_PROGRAM", line |-> 1, statements |-> ss]

(***************************************************************************)
(* Symbol table (symbol.c).  A table is [symbols, count, capacity,         *)
(* current_depth]; symbols is the malloc'ed array, an entry's `freed`      *)
(* tells that its name was passed to free().  uaf records a read or a      *)
(* second free of such a name.                                             *)
(***************************************************************************)
symbol_table_init ==
    [symbols |-> <<>>, count |-> 0, capacity |-> SYMBOL_INIT_CAPACITY,
     current_depth |-> 0, uaf |-> FALSE]

symbol_table_enter_scope(table) ==
    [table EXCEPT !.current_depth = @ + 1]

RECURSIVE symbol_table_exit_scope_loop(_)
symbol_table_exit_scope_loop(table) ==
    IF table.count > 0 /\ table.symbols[table.count].depth = table.current_depth
    THEN symbol_table_exit_scope_loop(
             [table EXCEPT !.count = @ - 1,
                           !.uaf = @ \/ table.symbols[table.count].freed,
                           !.symbols[table.count].freed = TRUE])
    ELSE table

symbol_table_exit_scope(table) ==
    LET t == symbol_table_exit_scope_loop(table)
    IN  IF t.current_depth > 0 THEN [t EXCEPT !.current_depth = @ - 1] ELSE t

\* the scan of define without its tests of the depth
RECURSIVE DefineScan_AnyDepth(_, _, _)
DefineScan_AnyDepth(table, i, nm) ==
    IF i < 1 THEN 0
    ELSE IF table.symbols[i].name = nm THEN i
    ELSE DefineScan_AnyDepth(table, i - 1, nm)

\* index of the entry the redefinition scan of define stops at, 0 if none
RECURSIVE DefineScan(_, _, _)
DefineScan(table, i, nm) ==
    IF i < 1 THEN 0
    ELSE IF table.symbols[i].depth < table.current_depth THEN 0
    ELSE IF table.symbols[i].depth = table.current_depth
            /\ table.symbols[i].name = nm THEN i
    ELSE DefineScan(table, i - 1, nm)

\* [table, ok]: ok = 0 when the name is already defined in this scope
symbol_table_define(table, nm, ty) ==
    LET hit == DefineScan(table, table.count, nm)
    IN  IF hit # 0
        THEN IF table.current_depth = 0
             THEN [table |-> [table EXCEPT !.symbols[hit].type = ty,
                                           !.uaf = @ \/ table.symbols[hit].freed],
                   ok |-> 1]
             ELSE [table |-> table, ok |-> 0]
        ELSE LET grown == IF table.count >= table.capacity
                          THEN [table EXCEPT !.capacity = @ * 2] ELSE table
                 sym   == [name |-> nm, type |-> ty,
                           depth |-> table.current_depth, freed |-> FALSE]
             IN  [table |-> [grown EXCEPT
                                !.symbols = SubSeq(@, 1, table.count) \o <<sym>>
                                            \o SubSeq(@, table.count + 2, Len(@)),
                                !.count = @ + 1],
                  ok |-> 1]

\* the scan of lookup from the oldest symbol on
RECURSIVE LookupScan_Oldest(_, _, _)
LookupScan_Oldest(table, i, nm) ==
    IF \A j \in 1..i : table.symbols[j].name # nm THEN 0
    ELSE CHOOSE j \in 1..i :
             /\ table.symbols[j].name = nm
             /\ \A k \in 1..(j - 1) : table.symbols[k].name # nm

RECURSIVE LookupScan(_, _, _)
LookupScan(table, i, nm) ==
    IF i < 1 THEN 0
    ELSE IF table.symbols[i].name = nm THEN i
    ELSE LookupScan(table, i - 1, nm)

symbol_table_lookup(table, nm) ==
    LET hit == LookupScan(table, table.count, nm)
    IN  IF hit = 0 THEN TYPE_ERROR ELSE table.symbols[hit].type

(***************************************************************************)
(* Type checker (typechecker.c).  tc is [symbols, had_error, errors];      *)
(* errors lists the "Type Error:" lines printed.                           *)
(***************************************************************************)
error(tc, msg) == [tc EXCEPT !.had_error = 1, !.errors = Append(@, msg)]

NameRead(table) ==
    [table EXCEPT !.uaf = @ \/ \E i \in 1..table.count : table.symbols[i].freed]

\* [tc, type]
RECURSIVE check_expression(_, _)
check_expression(tc, expr) ==
    IF IsNull(expr) THEN [tc |-> tc, type |-> TYPE_VOID]
    ELSE CASE expr.type = "NODE_INT_LITERAL" -> [tc |-> tc, type |-> TYPE_INT]
           [] expr.type = "NODE_STRING_LITERAL" -> [tc |-> tc, type |-> TYPE_STRING]
           [] expr.type = "NODE_UNARY_OP" ->
                LET r == check_expression(tc, expr.operand)
                IN  IF r.type # TYPE_INT
                    THEN [tc |-> error(r.tc, "Unary '-' only applies to numbers."),
                          type |-> TYPE_ERROR]
                    ELSE [tc |-> r.tc, type |-> TYPE_INT]
           [] expr.type = "NODE_VAR_ACCESS" ->
                LET ty  == symbol_table_lookup(tc.symbols, expr.name)
                    tc1 == [tc EXCEPT !.symbols = NameRead(@)]
                IN  IF ty = TYPE_ERROR
                    THEN [tc |-> error(tc1, "Undefined variable"), type |-> ty]
                    ELSE [tc |-> tc1, type |-> ty]
           [] expr.type = "NODE_BINARY_OP" ->
                LET l == check_expression(tc, expr.left)
                    r == check_expression(l.tc, expr.right)
                IN  IF l.type = TYPE_ERROR \/ r.type = TYPE_ERROR
                    THEN [tc |-> r.tc, type |-> TYPE_ERROR]
                    ELSE IF l.type = TYPE_INT /\ r.type = TYPE_INT
                    THEN [tc |-> r.tc, type |-> TYPE_INT]
                    ELSE IF expr.op = "TOKEN_PLUS" /\ l.type = TYPE_STRING
                            /\ r.type = TYPE_STRING
                    THEN [tc |-> r.tc, type |-> TYPE_STRING]
                    ELSE [tc |-> error(r.tc, "Type mismatch. Operations support INT (+-*/) or STRING (+ only)."),
                          type |-> TYPE_ERROR]
           [] OTHER -> [tc |-> tc, type |-> TYPE_ERROR]

RECURSIVE check_statement(_, _)
RECURSIVE check_statements(_, _, _)
\* the statement loops of NODE_PROGRAM and typecheck_ast, from index i on
check_statements(tc, stmts, i) ==
    IF i > Len(stmts) THEN tc
    ELSE check_statements(check_statement(tc, stmts[i]), stmts, i + 1)

check_statement(tc, stmt) ==
    IF IsNull(stmt) THEN tc
    ELSE CASE stmt.type = "NODE_VAR_DECL" ->
                IF IsNull(stmt.init)
                THEN error(tc, "Variable declaration requires an initializer for type inference.")
                ELSE LET r == check_expression(tc, stmt.init)
                     IN  IF r.type = TYPE_ERROR THEN r.tc
                         ELSE LET d == symbol_table_define(r.tc.symbols, stmt.name, r.type)
                                  tc1 == [r.tc EXCEPT !.symbols = d.table]
                              IN  IF d.ok = 0 /\ tc1.symbols.current_depth > 0
                                  THEN error(tc1, "Variable already declared in this scope")
                                  ELSE tc1
           [] stmt.type = "NODE_PRINT_STMT" ->
                LET r == check_expression(tc, stmt.expression)
                IN  IF r.type = TYPE_ERROR THEN r.tc
                    ELSE IF r.type = TYPE_VOID
                    THEN error(r.tc, "Cannot print a void expression.")
                    ELSE r.tc
           [] stmt.type = "NODE_EXPR_STMT" ->
                check_expression(tc, stmt.expression).tc
           [] stmt.type = "NODE_PROGRAM" ->
                check_statements(tc, stmt.statements, 1)
           [] OTHER -> tc

\* the value typecheck_ast returns
typecheck_AlwaysPasses(tc) == 1

typecheck_result(tc) == IF tc.had_error = 0 THEN 1 ELSE 0

\* [ok, globalSymbols, stale, errors]: the return value, the persistent
\* table afterwards and the diagnostics.  tc.symbols is a struct copy, so
\* the Symbol array is shared with globalSymbols whether or not it commits;
\* stale tells that the array was passed to realloc by symbol_table_define
\* while globalSymbols keeps the pointer it had.
typecheck_ast(gs, root) ==
    LET tc0 == [symbols |-> gs, had_error |-> 0, errors |-> <<>>]
        tc1 == IF root.type = "NODE_PROGRAM"
               THEN check_statements(tc0, root.statements, 1)
               ELSE check_statement(tc0, root)
        tc2 == [tc1 EXCEPT !.symbols = symbol_table_exit_scope(@)]
    IN  [ok |-> typecheck_result(tc2),
         globalSymbols |->
            IF tc2.had_error = 0 THEN tc2.symbols
            ELSE [gs EXCEPT !.symbols = tc2.symbols.symbols,
                            !.uaf = tc2.symbols.uaf],
         stale |-> tc2.had_error # 0 /\ tc2.symbols.capacity # gs.capacity,
         errors |-> tc2.errors]

(***************************************************************************)
(* Compiler (compiler.c).  A compiler record is [chunk, hadError,          *)
(* globalSymbols, heap, errors]: the Compiler struct, the file-static      *)
(* table of global names (globalCount is its length) and the heap on       *)
(* which copy_string allocates.                                            *)
(***************************************************************************)
emit_byte(compiler, byte, line) ==
    [compiler EXCEPT !.chunk = write_chunk(@, byte, line)]

emit_bytes(compiler, byte1, byte2, line) ==
    emit_byte(emit_byte(compiler, byte1, line), byte2, line)

CompileError(compiler, msg) ==
    [compiler EXCEPT !.hadError = 1, !.errors = Append(@, msg)]

emit_constant(compiler, value, line) ==
    LET c1 == [compiler EXCEPT !.chunk = add_constant(@, value)]
        constantIndex == Len(c1.chunk.constants) - 1
    IN  IF constantIndex > 255
        THEN CompileError(c1, "too many constants")
        ELSE emit_byte(emit_byte(c1, OP_CONSTANT, line), constantIndex, line)

\* the compiler after emit_jump; the placeholder is at count - 2
emit_jump(compiler, instruction, line) ==
    emit_bytes(emit_byte(compiler, instruction, line), 255, 255, line)

\* patch_jump without the adjustment for the operand itself
patch_jump_NoAdjust(compiler, offset) ==
    LET jump == Len(compiler.chunk.code) - offset
    IN  [compiler EXCEPT !.chunk.code[offset + 1] = (jump \div 256) % 256,
                         !.chunk.code[offset + 2] = jump % 256]

patch_jump(compiler, offset) ==
    LET jump == Len(compiler.chunk.code) - offset - 2
        c1   == IF jump > UINT16_MAX
                THEN CompileError(compiler, "Too much code to jump over.")
                ELSE compiler
    IN  [c1 EXCEPT !.chunk.code[offset + 1] = (jump \div 256) % 256,
                   !.chunk.code[offset + 2] = jump % 256]

emit_loop(compiler, loopStart, line) ==
    LET c1     == emit_byte(compiler, OP_LOOP, line)
        offset == Len(c1.chunk.code) - loopStart + 2
        c2     == IF offset > UINT16_MAX
                  THEN CompileError(c1, "Loop body too large.") ELSE c1
    IN  emit_bytes(c2, (offset \div 256) % 256, offset % 256, line)

emit_binary_op(compiler, opType, line) ==
    CASE opType = "TOKEN_PLUS"  -> emit_byte(compiler, OP_ADD, line)
      [] opType = "TOKEN_MINUS" -> emit_byte(compiler, OP_SUBTRACT, line)
      [] opType = "TOKEN_STAR"  -> emit_byte(compiler, OP_MULTIPLY, line)
      [] opType = "TOKEN_SLASH" -> emit_byte(compiler, OP_DIVIDE, line)
      [] opType = "TOKEN_EQUAL_EQUAL" -> emit_byte(compiler, OP_EQUAL, line)
      [] opType = "TOKEN_GREATER" -> emit_byte(compiler, OP_GREATER, line)
      [] opType = "TOKEN_LESS"    -> emit_byte(compiler, OP_LESS, line)
      [] opType = "TOKEN_BANG_EQUAL" ->
            emit_byte(emit_byte(compiler, OP_EQUAL, line), OP_NOT, line)
      [] opType = "TOKEN_GREATER_EQUAL" ->
            emit_byte(emit_byte(compiler, OP_LESS, line), OP_NOT, line)
      [] opType = "TOKEN_LESS_EQUAL" ->
            emit_byte(emit_byte(compiler, OP_GREATER, line), OP_NOT, line)
      [] OTHER -> CompileError(compiler, "Unsupported binary operator token")

\* the slot of a global name, -1 when unknown
resolve_global(compiler, nm) ==
    IF \E i \in 1..Len(compiler.globalSymbols) : compiler.globalSymbols[i] = nm
    THEN (CHOOSE i \in 1..Len(compiler.globalSymbols) :
            /\ compiler.globalSymbols[i] = nm
            /\ \A j \in 1..(i - 1) : compiler.globalSymbols[j] # nm) - 1
    ELSE -1

\* [compiler, index]
define_global(compiler, nm) ==
    IF Len(compiler.globalSymbols) >= 256
    THEN [compiler |-> CompileError(compiler, "Too many global variables."),
          index |-> 0]
    ELSE IF resolve_global(compiler, nm) # -1
    THEN [compiler |-> compiler, index |-> resolve_global(compiler, nm)]
    ELSE [compiler |-> [compiler EXCEPT !.globalSymbols = Append(@, nm)],
          index |-> Len(compiler.globalSymbols)]

RECURSIVE compile_expression(_, _)
compile_expression(compiler, expr) ==
    IF compiler.hadError = 1 \/ IsNull(expr) THEN compiler
    ELSE CASE expr.type = "NODE_INT_LITERAL" ->
                emit_constant(compiler, INT_VAL(expr.value), expr.line)
           [] expr.type = "NODE_STRING_LITERAL" ->
                LET c1 == [compiler EXCEPT !.heap = Append(@, StringObj(expr.value))]
                IN  emit_constant(c1, OBJ_VAL(Len(c1.heap)), expr.line)
           [] expr.type = "NODE_BOOL_LITERAL" ->
                emit_byte(compiler, IF expr.value # 0 THEN OP_TRUE ELSE OP_FALSE, expr.line)
           [] expr.type = "NODE_VAR_ACCESS" ->
                LET index == resolve_global(compiler, expr.name)
                IN  IF index = -1
                    THEN CompileError(compiler, "Undefined variable")
                    ELSE emit_byte(emit_byte(compiler, OP_GET_GLOBAL, expr.line),
                                   index, expr.line)
           [] expr.type = "NODE_UNARY_OP" ->
                LET c1 == compile_expression(compiler, expr.operand)
                IN  IF expr.op = "TOKEN_MINUS" THEN emit_byte(c1, OP_NEGATE, expr.line)
                    ELSE IF expr.op = "TOKEN_BANG" THEN emit_byte(c1, OP_NOT, expr.line)
                    ELSE c1
           [] expr.type = "NODE_BINARY_OP" ->
                emit_binary_op(
                    compile_expression(compile_expression(compiler, expr.left),
                                       expr.right),
                    expr.op, expr.line)
           [] OTHER -> CompileError(compiler, "Unhandled expression node type")

RECURSIVE compile_statement(_, _)
RECURSIVE compile_block(_, _, _)
\* the statement loop of NODE_BLOCK, from index i on
compile_block(compiler, stmts, i) ==
    IF i > Len(stmts) THEN compiler
    ELSE compile_block(compile_statement(compiler, stmts[i]), stmts, i + 1)

compile_statement(compiler, stmt) ==
    IF compiler.hadError = 1 \/ IsNull(stmt) THEN compiler
    ELSE CASE stmt.type = "NODE_BLOCK" ->
                compile_block(compiler, stmt.statements, 1)
           [] stmt.type = "NODE_IF" ->
                LET c1 == compile_expression(compiler, stmt.condition)
                    c2 == emit_jump(c1, OP_JUMP_IF_FALSE, stmt.line)
                    thenJump == Len(c2.chunk.code) - 2
                    c3 == emit_byte(c2, OP_POP, stmt.line)
                    c4 == compile_statement(c3, stmt.thenBranch)
                    c5 == emit_jump(c4, OP_JUMP, stmt.line)
                    elseJump == Len(c5.chunk.code) - 2
                    c6 == emit_byte(patch_jump(c5, thenJump), OP_POP, stmt.line)
                    c7 == IF IsNull(stmt.elseBranch) THEN c6
                          ELSE compile_statement(c6, stmt.elseBranch)
                IN  patch_jump(c7, elseJump)
           [] stmt.type = "NODE_WHILE" ->
                LET loopStart == Len(compiler.chunk.code)
                    c1 == compile_expression(compiler, stmt.condition)
                    c2 == emit_jump(c1, OP_JUMP_IF_FALSE, stmt.line)
                    exitJump == Len(c2.chunk.code) - 2
                    c3 == emit_byte(c2, OP_POP, stmt.line)
                    c4 == compile_statement(c3, stmt.body)
                    c5 == emit_loop(c4, loopStart, stmt.line)
                IN  emit_byte(patch_jump(c5, exitJump), OP_POP, stmt.line)
           [] stmt.type = "NODE_VAR_DECL" ->
                LET c1 == compile_expression(compiler, stmt.init)
                    d  == define_global(c1, stmt.name)
                IN  IF d.index = -1 THEN d.compiler
                    ELSE emit_byte(emit_byte(d.compiler, OP_SET_GLOBAL, stmt.line),
                                   d.index, stmt.line)
           [] stmt.type = "NODE_PRINT_STMT" ->
                emit_byte(compile_expression(compiler, stmt.expression),
                          OP_PRINT, stmt.line)
           [] stmt.type = "NODE_EXPR_STMT" ->
                emit_byte(compile_expression(compiler, stmt.expression),
                          OP_POP, stmt.line)
           [] OTHER -> CompileError(compiler, "Unhandled statement node type")

\* the loop of compile_program from statement i on, then the final return
RECURSIVE compile_program_loop(_, _, _)
compile_program_loop(compiler, stmts, i) ==
    IF i > Len(stmts) THEN emit_byte(compiler, OP_RETURN, 0)
    ELSE LET c1 == compile_statement(compiler, stmts[i])
         IN  IF c1.hadError = 1 THEN c1
             ELSE compile_program_loop(c1, stmts, i + 1)

compile_program(compiler, root) ==
    compile_program_loop(compiler, root.statements, 1)

\* [ok, chunk, globalSymbols, heap, errors]
compile_ast(ast, names, hp) ==
    LET c0 == [chunk |-> EmptyChunk, hadError |-> 0, globalSymbols |-> names,
               heap |-> hp, errors |-> <<>>]
    IN  IF ast.type # "NODE_PROGRAM"
        THEN [ok |-> 0, chunk |-> EmptyChunk, globalSymbols |-> names,
              heap |-> hp, errors |-> <<"AST root must be PROGRAM">>]
        ELSE LET c1 == compile_program(c0, ast)
             IN  [ok |-> IF c1.hadError = 1 THEN 0 ELSE 1,
                  chunk |-> IF c1.hadError = 1 THEN EmptyChunk ELSE c1.chunk,
                  globalSymbols |-> c1.globalSymbols,
                  heap |-> c1.heap, errors |-> c1.errors]

(***************************************************************************)
(* Inputs of the interactive prompt: a name and the AST parse() returns    *)
(* for the line (NULL when the parser reported a syntax error).            *)
(***************************************************************************)
\* var i = 0; while i < n { var a = i; var b = i; var c = i; var i = i + 1; }
CountingLoop(n) ==
    Program(<<VarDecl("i", IntLit(0)),
              WhileStmt(Binary("TOKEN_LESS", Var("i"), IntLit(n)),
                        Block(<<VarDecl("a", Var("i")), VarDecl("b", Var("i")),
                                VarDecl("c", Var("i")),
                                VarDecl("i", Binary("TOKEN_PLUS", Var("i"), IntLit(1)))>>))>>)

\* var v1 = 1; ... var vn = n; print y;
ManyNames ==
    <<"v1", "v2", "v3", "v4", "v5", "v6", "v7", "v8", "v9", "v10", "v11",
      "v12", "v13", "v14", "v15", "v16", "v17">>

ManyDeclarations(n) ==
    Program([i \in 1..n |-> VarDecl(ManyNames[i], IntLit(i))] \o <<PrintStmt(Var("y"))>>)

ReplInputs ==
    { [name |-> "decl_x",   ast |-> Program(<<VarDecl("x", IntLit(5))>>)],
      [name |-> "print_x",  ast |-> Program(<<PrintStmt(Var("x"))>>)],
      [name |-> "decl_use", ast |-> Program(<<VarDecl("x", IntLit(5)),
                                   ExprStmt(Binary("TOKEN_PLUS", Var("x"), IntLit(1)))>>)],
      [name |-> "expr",     ast |-> Program(<<ExprStmt(Binary("TOKEN_PLUS", IntLit(1), IntLit(2)))>>)],
      [name |-> "print3",   ast |-> Program(<<PrintStmt(Binary("TOKEN_PLUS", IntLit(1), IntLit(2)))>>)],
      [name |-> "div0",     ast |-> Program(<<ExprStmt(Binary("TOKEN_SLASH", IntLit(1), IntLit(0)))>>)],
      [name |-> "scoping",  ast |-> Program(<<VarDecl("a", IntLit(10)),
                                   Block(<<VarDecl("a", IntLit(99))>>),
                                   ExprStmt(Var("a"))>>)],
      [name |-> "strcat",   ast |-> Program(<<PrintStmt(Binary("TOKEN_PLUS", StrLit("a"), StrLit("b")))>>)],
      [name |-> "mod",      ast |-> Program(<<PrintStmt(Binary("TOKEN_PERCENT", IntLit(7), IntLit(0)))>>)],
      [name |-> "print_y",  ast |-> Program(<<PrintStmt(Var("y"))>>)],
      [name |-> "loop3",    ast |-> CountingLoop(3)],
      [name |-> "loop100",  ast |-> CountingLoop(100)],
      [name |-> "decl_then_error", ast |-> Program(<<VarDecl("z", IntLit(1)),
                                   VarDecl("z", StrLit("s")),
                                   PrintStmt(Var("y"))>>)],
      [name |-> "many_then_error", ast |-> ManyDeclarations(SYMBOL_INIT_CAPACITY + 1)],
      [name |-> "syntax_error", ast |-> NULL] }

(***************************************************************************)
(* Inputs of the test harness: function objects holding the bytecode of    *)
(* programs with functions, laid out by the calling convention             *)
(* [callee, arg1 .. argN] with the callee in local slot 0.  HarnessHeap     *)
(* holds the function objects and their names; a program is the id of its  *)
(* script function.                                                        *)
(***************************************************************************)
Lines(code) == [i \in 1..Len(code) |-> 1]
Chunk(code, constants) == [code |-> code, lines |-> Lines(code), constants |-> constants]

HarnessHeap == <<
    \* 1, 2: func add(a, b): int { return a + b; }
    StringObj("add"),
    FunctionObj(1, 2, Chunk(<<OP_GET_LOCAL, 1, OP_GET_LOCAL, 2, OP_ADD, OP_RETURN>>, <<>>)),
    \* 3, 4: func f(n): int { return f(n); }
    StringObj("f"),
    FunctionObj(3, 1, Chunk(<<OP_GET_GLOBAL, 1, OP_GET_LOCAL, 1, OP_CALL, 1, OP_RETURN>>, <<>>)),
    \* 5, 6: func g(a, b, c, d): int { return g(a, b, c, d); }
    StringObj("g"),
    FunctionObj(5, 4, Chunk(<<OP_GET_GLOBAL, 2, OP_GET_LOCAL, 1, OP_GET_LOCAL, 2,
                              OP_GET_LOCAL, 3, OP_GET_LOCAL, 4, OP_CALL, 4, OP_RETURN>>, <<>>)),
    \* 7, 8: func d(n): int { return 10 / n; }
    StringObj("d"),
    FunctionObj(7, 1, Chunk(<<OP_CONSTANT, 0, OP_GET_LOCAL, 1, OP_DIVIDE, OP_RETURN>>,
                            <<INT_VAL(10)>>)),
    \* 9: func add ...; add(400, 700);
    FunctionObj(0, 0, Chunk(<<OP_CONSTANT, 0, OP_SET_GLOBAL, 0, OP_POP,
                              OP_GET_GLOBAL, 0, OP_CONSTANT, 1, OP_CONSTANT, 2,
                              OP_CALL, 2, OP_RETURN>>,
                            <<OBJ_VAL(2), INT_VAL(400), INT_VAL(700)>>)),
    \* 10: func f ...; f(1);
    FunctionObj(0, 0, Chunk(<<OP_CONSTANT, 0, OP_SET_GLOBAL, 1, OP_POP,
                              OP_GET_GLOBAL, 1, OP_CONSTANT, 1, OP_CALL, 1, OP_RETURN>>,
                            <<OBJ_VAL(4), INT_VAL(1)>>)),
    \* 11: func g ...; g(1, 2, 3, 4);
    FunctionObj(0, 0, Chunk(<<OP_CONSTANT, 0, OP_SET_GLOBAL, 2, OP_POP,
                              OP_GET_GLOBAL, 2, OP_CONSTANT, 1, OP_CONSTANT, 2,
                              OP_CONSTANT, 3, OP_CONSTANT, 4, OP_CALL, 4, OP_RETURN>>,
                            <<OBJ_VAL(6), INT_VAL(1), INT_VAL(2), INT_VAL(3), INT_VAL(4)>>)),
    \* 12: func d ...; d(0);   a division by zero one call deep
    FunctionObj(0, 0, Chunk(<<OP_CONSTANT, 0, OP_SET_GLOBAL, 3, OP_POP,
                              OP_GET_GLOBAL, 3, OP_CONSTANT, 1, OP_CALL, 1, OP_RETURN>>,
                            <<OBJ_VAL(8), INT_VAL(0)>>)),
    \* 13: func add ...; 5 + add(1);   a call with the wrong argument count
    FunctionObj(0, 0, Chunk(<<OP_CONSTANT, 0, OP_SET_GLOBAL, 0, OP_POP, OP_CONSTANT, 1,
                              OP_GET_GLOBAL, 0, OP_CONSTANT, 2, OP_CALL, 1, OP_ADD,
                              OP_RETURN>>,
                            <<OBJ_VAL(2), INT_VAL(5), INT_VAL(1)>>)),
    \* 14: var n = 7; n();   a call of a value that is no function
    FunctionObj(0, 0, Chunk(<<OP_CONSTANT, 0, OP_SET_GLOBAL, 4, OP_POP,
                              OP_GET_GLOBAL, 4, OP_CALL, 0, OP_RETURN>>,
                            <<INT_VAL(7)>>)),
    \* 15: print 7 % 0;
    FunctionObj(0, 0, Chunk(<<OP_CONSTANT, 0, OP_CONSTANT, 1, OP_MODULO, OP_PRINT,
                              OP_CONSTANT, 1, OP_RETURN>>,
                            <<INT_VAL(7), INT_VAL(0)>>)),
    \* 16: print 7 % 3; print 7 / 2;
    FunctionObj(0, 0, Chunk(<<OP_CONSTANT, 0, OP_CONSTANT, 1, OP_MODULO, OP_PRINT,
                              OP_CONSTANT, 0, OP_CONSTANT, 2, OP_DIVIDE, OP_PRINT,
                              OP_CONSTANT, 1, OP_RETURN>>,
                            <<INT_VAL(7), INT_VAL(3), INT_VAL(2)>>)),
    \* 17: var s = "f"; s();   a call of a string
    FunctionObj(0, 0, Chunk(<<OP_CONSTANT, 0, OP_SET_GLOBAL, 4, OP_POP,
                              OP_GET_GLOBAL, 4, OP_CALL, 0, OP_RETURN>>,
                            <<OBJ_VAL(3)>>))
>>

HarnessInputs ==
    { [name |-> "h_add", fn |-> 9],    [name |-> "h_rec", fn |-> 10],
      [name |-> "h_deep", fn |-> 11],  [name |-> "h_div0", fn |-> 12],
      [name |-> "h_arity", fn |-> 13], [name |-> "h_notfn", fn |-> 14],
      [name |-> "h_mod0", fn |-> 15],  [name |-> "h_mod", fn |-> 16],
      [name |-> "h_callstr", fn |-> 17] }

(***************************************************************************)
(* The session: main.c's prompt loop (mode "repl") and the test harness    *)
(* calling init_vm(); interpret(function) (mode "harness").  run() is      *)
(* taken one instruction at a time.                                        *)
(***************************************************************************)
\* what a read outside vm.stack may return, and vm.frameCount after a
\* write below it
Undef == [val : {INT_VAL(0), BOOL_VAL(TRUE)}, fc : {0, 1}]

NoValue == [type |-> -1, as |-> 0]

NoStages == [parsed |-> FALSE, checked |-> FALSE, compiled |-> FALSE, ran |-> FALSE]

\* the machine record of the current state
Machine ==
    [stack |-> stack, stackTop |-> stackTop, frames |-> frames,
     frameCount |-> frameCount, globals |-> globals, heap |-> heap,
     script |-> script, out |-> out, errmsg |-> errmsg, trace |-> trace,
     popped |-> popped, oob |-> oob, halt |-> NO_RESULT]

\* interpret() up to the call of run(); function 0 is the script chunk
interpret(M, function) ==
    LET M1 == reset_stack(M)
    IN  [M1 EXCEPT !.frameCount = 1,
                   !.frames = <<[function |-> function, ip |-> 0, slots |-> 0]>>]

\* the machine M becomes the next state; the session is at position p
Load(M, p) ==
    /\ stack' = M.stack
    /\ stackTop' = M.stackTop
    /\ frames' = M.frames
    /\ frameCount' = M.frameCount
    /\ globals' = M.globals
    /\ heap' = M.heap
    /\ script' = M.script
    /\ out' = M.out
    /\ errmsg' = M.errmsg
    /\ trace' = M.trace
    /\ popped' = M.popped
    /\ oob' = M.oob
    /\ pc' = p

\* the machine as a new input finds it: nothing printed yet
Fresh == [Machine EXCEPT !.out = <<>>, !.errmsg = "", !.trace = <<>>,
                         !.popped = NoValue, !.oob = FALSE]

\* A result that is used more than once is bound as the element of a
\* singleton, With({ ... : x \in {result} }), so that it is computed once.
With(S) == CHOOSE x \in S : TRUE

(***************************************************************************)
(* Lexer (lexer.c).  parser.lexer is the Lexer struct; start and current   *)
(* are the C indices into source.  The memory of the source is its         *)
(* characters, the terminator NUL, then the bytes that happen to follow    *)
(* (beyond), then NUL.  returned lists the tokens get_next_token has       *)
(* returned, newlines counts the newline characters consumed, pastEnd      *)
(* records a read of a byte after the terminator.                          *)
(***************************************************************************)
NUL == "NUL"

SourceChars == {"\"", "a", "\n", "/", " ", "="}

\* what may lie after the terminator of a source
Beyond == {<<>>, <<"a">>, <<"\n">>, <<"\"">>}

\* lexer->source[i]
Char(L, i) ==
    IF i < Len(L.source) THEN L.source[i + 1]
    ELSE IF i > Len(L.source) /\ i <= Len(L.source) + Len(L.beyond)
    THEN L.beyond[i - Len(L.source)]
    ELSE NUL

init_lexer(source, beyond) ==
    [source |-> source, beyond |-> beyond, start |-> 0, current |-> 0,
     line |-> 1, returned |-> <<>>, newlines |-> 0, pastEnd |-> FALSE]

is_at_end(L) == Char(L, L.current) = NUL

lexer_advance(L) ==
    [L EXCEPT !.current = @ + 1,
              !.newlines = IF Char(L, L.current) = "\n" THEN @ + 1 ELSE @]

lexer_peek(L) == Char(L, L.current)

lexer_peek_next(L) == IF is_at_end(L) THEN NUL ELSE Char(L, L.current + 1)

\* the lexeme lexer->source + lexer->start of length current - start
LexemeOf(L) == [i \in 1..(L.current - L.start) |-> Char(L, L.start + i - 1)]

make_token(L, type) == [type |-> type, lexeme |-> LexemeOf(L), line |-> L.line]

error_token(L, message) ==
    [type |-> "TOKEN_ERROR", lexeme |-> message, line |-> L.line]

\* the comment loop of skip_whitespace
RECURSIVE skip_comment(_)
skip_comment(L) ==
    IF lexer_peek(L) # "\n" /\ ~is_at_end(L) THEN skip_comment(lexer_advance(L))
    ELSE L

RECURSIVE skip_whitespace(_)
skip_whitespace(L) ==
    IF lexer_peek(L) \in {" ", "\r", "\t"} THEN skip_whitespace(lexer_advance(L))
    ELSE IF lexer_peek(L) = "\n"
    THEN skip_whitespace(lexer_advance([L EXCEPT !.line = @ + 1]))
    ELSE IF lexer_peek(L) = "/" /\ lexer_peek_next(L) = "/"
    THEN skip_whitespace(skip_comment(L))
    ELSE L

isalpha(c) == c \in {"a"}
isdigit(c) == c \in {"1", "2", "3", "5"}

\* identifier_type: the keyword the lexeme spells, or TOKEN_ID
identifier_type(L) ==
    CASE LexemeOf(L) = <<"v", "a", "r">> -> "TOKEN_VAR"
      [] LexemeOf(L) = <<"i", "f">>      -> "TOKEN_IF"
      [] OTHER                           -> "TOKEN_ID"

RECURSIVE read_identifier_loop(_)
read_identifier_loop(L) ==
    IF isalpha(lexer_peek(L)) \/ isdigit(lexer_peek(L)) \/ lexer_peek(L) = "_"
    THEN read_identifier_loop(lexer_advance(L))
    ELSE L

\* each scanning function yields [lexer, token]
read_identifier(L) ==
    [lexer |-> read_identifier_loop(L),
     token |-> make_token(read_identifier_loop(L),
                          identifier_type(read_identifier_loop(L)))]

RECURSIVE read_number_loop(_)
read_number_loop(L) ==
    IF isdigit(lexer_peek(L)) THEN read_number_loop(lexer_advance(L)) ELSE L

read_number(L) ==
    [lexer |-> read_number_loop(L),
     token |-> make_token(read_number_loop(L), "TOKEN_INT")]

\* the body of string() without the count of lines
string_newline_None(L) == L

\* if (lexer_peek(lexer) == '\n') lexer->line++;
string_newline(L) ==
    IF lexer_peek(L) = "\n" THEN [L EXCEPT !.line = @ + 1] ELSE L

RECURSIVE string_loop(_)
string_loop(L) ==
    IF lexer_peek(L) # "\"" /\ ~is_at_end(L)
    THEN string_loop(lexer_advance(string_newline(L)))
    ELSE L

string_end(L) ==
    IF is_at_end(L)
    THEN [lexer |-> lexer_advance(L),
          token |-> error_token(lexer_advance(L), "Unterminated string.")]
    ELSE [lexer |-> lexer_advance(L),
          token |-> make_token(lexer_advance(L), "TOKEN_STRING")]

string(L) == string_end(string_loop(L))

\* [lexer, matched]
match_char(L, expected) ==
    IF is_at_end(L) \/ Char(L, L.current) # expected
    THEN [lexer |-> L, matched |-> FALSE]
    ELSE [lexer |-> [L EXCEPT !.current = @ + 1], matched |-> TRUE]

\* make_token(lexer, match_char(lexer, '=') ? withEqual : alone)
two_char(L, withEqual, alone) ==
    [lexer |-> match_char(L, "=").lexer,
     token |-> make_token(match_char(L, "=").lexer,
                          IF match_char(L, "=").matched THEN withEqual
                          ELSE alone)]

\* get_next_token after  char c = advance(lexer);
scan(L, c) ==
    IF isalpha(c) \/ c = "_" THEN read_identifier(L)
    ELSE IF isdigit(c) THEN read_number(L)
    ELSE IF c = "\"" THEN string(L)
    ELSE IF c = ";"
    THEN [lexer |-> L, token |-> make_token(L, "TOKEN_SEMICOLON")]
    ELSE IF c = "+" THEN two_char(L, "TOKEN_PLUS_EQUAL", "TOKEN_PLUS")
    ELSE IF c = "/" THEN two_char(L, "TOKEN_SLASH_EQUAL", "TOKEN_SLASH")
    ELSE IF c = "=" THEN two_char(L, "TOKEN_EQUAL_EQUAL", "TOKEN_EQUALS")
    ELSE [lexer |-> L, token |-> error_token(L, "Unexpected character.")]

\* get_next_token after skip_whitespace(lexer);
get_next_token_at(L) ==
    IF is_at_end(L) THEN [lexer |-> L, token |-> make_token(L, "TOKEN_EOF")]
    ELSE scan(lexer_advance(L), lexer_peek(L))

get_next_token(L) ==
    With({ get_next_token_at([L1 EXCEPT !.start = L1.current])
           : L1 \in {skip_whitespace(
                        [L EXCEPT !.pastEnd = @ \/ L.current > Len(L.source)])} })

\* no parse() is under way
NoParser ==
    [lexer |-> init_lexer(<<>>, <<>>), tokens |-> <<>>, pos |-> 0, had_error |-> 0, errors |-> 0,
     hang |-> FALSE, crash |-> FALSE, ub |-> "crash",
     bad_target |-> FALSE, invalid_target |-> FALSE,
     statements |-> <<>>, statement_count |-> 0, status |-> "idle",
     result |-> "none"]

\* no call of the symbol table or of typecheck_ast has been made.  scopes is
\* the stack of scopes as the calls made so far define it, bottom first,
\* each scope the type of every name (TYPE_ERROR: not defined in it);
\* bottomExit tells that symbol_table_exit_scope was called at depth 0.
SymNames == {"x", "y"}
EmptyScope == [nm \in SymNames |-> TYPE_ERROR]

NoChecker ==
    [op |-> "none", name |-> "", type |-> TYPE_VOID, ok |-> 1,
     scopes |-> <<EmptyScope>>, bottomExit |-> FALSE, root |-> NULL]

\* the allocator fields after init_vm()
InitMem ==
    [objects |-> <<>>, freed |-> {}, bytesAllocated |-> 0,
     nextGC |-> 1024 * 1024, grayStack |-> <<>>,
     compiling |-> FALSE, constants |-> <<>>, uaf |-> FALSE, live |-> TRUE,
     inUse |-> {}, freedNow |-> {}, unlinkedNow |-> {}, sweptInUse |-> {},
     collections |-> 0, constantsMarked |-> 0, op |-> "init_vm"]

Init ==
    /\ mode \in {"repl", "harness"}
    /\ pc = "prompt"
    /\ nInputs = 0
    /\ lastInput = "none"
    /\ stages = NoStages
    /\ result = NO_RESULT
    /\ prevResult = NO_RESULT
    /\ stack = <<>>
    /\ stackTop = 0
    /\ frames = <<>>
    /\ frameCount = 0
    /\ globals = <<>>
    /\ heap = IF mode = "repl" THEN <<>> ELSE HarnessHeap
    /\ script = EmptyChunk
    /\ out = <<>>
    /\ errmsg = ""
    /\ trace = <<>>
    /\ popped = NoValue
    /\ oob = FALSE
    /\ globalSymbols = symbol_table_init
    /\ tcErrors = <<>>
    /\ tcUaf = FALSE
    /\ globalNames = <<>>
    /\ mem = InitMem
    /\ parser = NoParser
    /\ checker = NoChecker

\* run_source(line) up to the first instruction of run()
RunSource(inp) ==
    /\ UNCHANGED <<mem, parser, checker>>
    /\ mode \in {"repl", "vm"}
    /\ pc = "prompt"
    /\ nInputs < MaxInputs
    /\ UNCHANGED mode
    /\ nInputs' = nInputs + 1
    /\ lastInput' = inp.name
    /\ prevResult' = result
    /\ result' = NO_RESULT
    /\ IF IsNull(inp.ast)
       THEN /\ stages' = NoStages
            /\ Load(Fresh, "prompt")
            /\ tcErrors' = <<>>
            /\ UNCHANGED <<globalSymbols, tcUaf, globalNames>>
       ELSE \E t \in {typecheck_ast(globalSymbols, inp.ast)} :
                /\ globalSymbols' = [t.globalSymbols EXCEPT !.uaf = FALSE]
                \* realloc either extends the array in place or moves it
                /\ \E moved \in (IF t.stale THEN BOOLEAN ELSE {FALSE}) :
                       tcUaf' = (tcUaf \/ t.globalSymbols.uaf \/ moved)
                /\ tcErrors' = t.errors
                /\ IF t.ok = 0
                   THEN /\ stages' = [NoStages EXCEPT !.parsed = TRUE]
                        /\ Load(Fresh, "prompt")
                        /\ UNCHANGED globalNames
                   ELSE \E c \in {compile_ast(inp.ast, globalNames, heap)} :
                            /\ globalNames' = c.globalSymbols
                            /\ IF c.ok = 0
                               THEN /\ stages' = [NoStages EXCEPT !.parsed = TRUE,
                                                                  !.checked = TRUE]
                                    /\ Load([Fresh EXCEPT !.heap = c.heap], "prompt")
                               ELSE /\ stages' = [parsed |-> TRUE, checked |-> TRUE,
                                                  compiled |-> TRUE, ran |-> TRUE]
                                    /\ Load(interpret([Fresh EXCEPT !.heap = c.heap,
                                                                    !.script = c.chunk], 0),
                                            "run")

\* the harness: init_vm(); interpret(function);
HarnessRun(inp) ==
    /\ UNCHANGED <<mem, parser, checker>>
    /\ mode = "harness"
    /\ pc = "prompt"
    /\ nInputs < MaxInputs
    /\ UNCHANGED mode
    /\ nInputs' = nInputs + 1
    /\ lastInput' = inp.name
    /\ prevResult' = result
    /\ result' = NO_RESULT
    /\ stages' = [parsed |-> TRUE, checked |-> TRUE, compiled |-> TRUE, ran |-> TRUE]
    /\ Load(interpret(reset_stack(Fresh), inp.fn), "run")
    /\ UNCHANGED <<globalSymbols, tcErrors, tcUaf, globalNames>>

\* a run loop whose runtime error terminates the process
Step_ErrorExits ==
    /\ UNCHANGED <<mem, parser, checker>>
    /\ pc = "run"
    /\ \E u \in Undef :
          \E M \in {Exec(Machine, u)} :
              /\ Load(M, IF M.halt = NO_RESULT THEN "run"
                         ELSE IF M.halt = "CRASH" THEN "crashed"
                         ELSE IF M.halt = INTERPRET_RUNTIME_ERROR THEN "exited"
                         ELSE "prompt")
              /\ result' = IF M.halt = "CRASH" THEN NO_RESULT ELSE M.halt
    /\ UNCHANGED <<mode, nInputs, lastInput, stages, prevResult,
                   globalSymbols, tcErrors, tcUaf, globalNames>>

\* one instruction of run(); the last one returns to the caller of interpret
Step ==
    /\ UNCHANGED <<mem, parser, checker>>
    /\ pc = "run"
    /\ \E u \in Undef :
          \E M \in {Exec(Machine, u)} :
              /\ Load(M, IF M.halt = NO_RESULT THEN "run"
                         ELSE IF M.halt = "CRASH" THEN "crashed" ELSE "prompt")
              /\ result' = IF M.halt = "CRASH" THEN NO_RESULT ELSE M.halt
    /\ UNCHANGED <<mode, nInputs, lastInput, stages, prevResult,
                   globalSymbols, tcErrors, tcUaf, globalNames>>

\* the `exit` command or end of input: free_typechecker(); free_vm();
Exit ==
    /\ pc = "prompt"
    /\ pc' = "exited"
    /\ UNCHANGED <<mode, nInputs, lastInput, stages, result, prevResult, stack,
                   stackTop, frames, frameCount, globals, heap, script, out,
                   errmsg, trace, popped, oob, globalSymbols, tcErrors, tcUaf,
                   globalNames, mem, parser, checker>>

Next ==
    \/ \E inp \in ReplInputs : RunSource(inp)
    \/ \E inp \in HarnessInputs : HarnessRun(inp)
    \/ Step
    \/ Exit

Spec == Init /\ [][Next]_vars

(***************************************************************************)
(* Memory manager and garbage collector (memory.c, object.c).  A machine   *)
(* G carries, besides the VM fields, the allocator's: objects is the list  *)
(* vm.objects (addresses, head first), freed the addresses passed to       *)
(* free(), grayStack the worklist, compiling and constants the compiler's  *)
(* `current` pointer and the constant pool of its chunk.  An address is an *)
(* index of heap; the characters of a string are a sequence.  inUse holds  *)
(* the addresses the running C function keeps in local variables; uaf      *)
(* records an access to freed memory.  freedNow, unlinkedNow, sweptInUse   *)
(* and collections log what the current operation did.                     *)
(***************************************************************************)
\* sizeof on an LP64 build
SIZEOF_ObjString   == 32
SIZEOF_ObjFunction == 72
GC_HEAP_GROW_FACTOR == 2

mark_object(G, object) ==
    IF object = 0 THEN G
    ELSE IF object \in G.freed THEN [G EXCEPT !.uaf = TRUE]
    ELSE IF G.heap[object].isMarked THEN G
    ELSE [G EXCEPT !.heap[object].isMarked = TRUE,
                   !.grayStack = Append(@, object)]

mark_value(G, value) ==
    IF IS_OBJ(value) THEN mark_object(G, value.as) ELSE G

\* mark_value on values[i .. n]
RECURSIVE mark_values(_, _, _, _)
mark_values(G, values, i, n) ==
    IF i > n THEN G
    ELSE mark_values(mark_value(G, SeqGet(values, i)), values, i + 1, n)

mark_compiler_roots_None(G) == G

\* constantsMarked logs how many constants the pool held
mark_compiler_roots(G) ==
    IF ~G.compiling THEN G
    ELSE [mark_values(G, G.constants, 1, Len(G.constants))
             EXCEPT !.constantsMarked = Len(G.constants)]

mark_roots(G) ==
    LET G1 == mark_values(G, G.stack, 1, G.stackTop)
        G2 == mark_values(G1, G.globals, 1,
                          IF Len(G.globals) < GLOBALS_MAX THEN Len(G.globals)
                          ELSE GLOBALS_MAX)
    IN  mark_compiler_roots(G2)

\* the switch has a case for OBJ_STRING only, and that case is empty
blacken_object(G, object) == G

RECURSIVE trace_references(_)
trace_references(G) ==
    IF Len(G.grayStack) = 0 THEN G
    ELSE LET object == G.grayStack[Len(G.grayStack)]
         IN  trace_references(
                 blacken_object([G EXCEPT !.grayStack = SubSeq(@, 1, Len(@) - 1)],
                                object))

RECURSIVE reallocate(_, _, _)
RECURSIVE collect_garbage(_)
RECURSIVE sweep_loop(_, _, _)
RECURSIVE free_object(_, _)

\* the switch has a case for OBJ_STRING only
free_object(G, object) ==
    IF G.heap[object].type = OBJ_STRING
    THEN LET G1 == reallocate(G, Len(G.heap[object].chars) + 1, 0)
             G2 == reallocate(G1, SIZEOF_ObjString, 0)
         IN  [G2 EXCEPT !.freed = @ \cup {object},
                        !.freedNow = @ \cup {object},
                        !.sweptInUse = @ \cup ({object} \cap G.inUse)]
    ELSE G

sweep_unmark_None(G, object) == G

\* object->isMarked = false;  for an object that stays on the list
sweep_unmark(G, object) == [G EXCEPT !.heap[object].isMarked = FALSE]

\* the loop of sweep() over the rest of the list; kept is the list so far
sweep_loop(G, rest, kept) ==
    IF rest = <<>> THEN [G EXCEPT !.objects = kept]
    ELSE LET object == Head(rest)
         IN  IF G.heap[object].isMarked
             THEN sweep_loop(sweep_unmark(G, object),
                             Tail(rest), Append(kept, object))
             ELSE sweep_loop(free_object([G EXCEPT !.unlinkedNow = @ \cup {object}],
                                         object),
                             Tail(rest), kept)

sweep(G) == sweep_loop(G, G.objects, <<>>)

collect_garbage(G) ==
    LET G1 == sweep(trace_references(mark_roots(G)))
    IN  [G1 EXCEPT !.nextGC = G1.bytesAllocated * GC_HEAP_GROW_FACTOR,
                   !.collections = @ + 1]

reallocate(G, oldSize, newSize) ==
    LET G1 == [G EXCEPT !.bytesAllocated = @ + newSize - oldSize]
    IN  IF newSize > oldSize /\ G1.bytesAllocated > G1.nextGC
        THEN collect_garbage(G1)
        ELSE G1

\* the new object's address is Len(heap) of the result
allocate_object(G, size, object) ==
    LET G1 == reallocate(G, 0, size)
    IN  [G1 EXCEPT !.heap = Append(@, object),
                   !.objects = <<Len(G1.heap) + 1>> \o @]

allocate_string(G, chars) ==
    allocate_object(G, SIZEOF_ObjString, StringObj(chars))

copy_string(G, chars) ==
    allocate_string(reallocate(G, 0, Len(chars) + 1), chars)

take_string(G, chars) == allocate_string(G, chars)

new_function(G) ==
    allocate_object(G, SIZEOF_ObjFunction, FunctionObj(0, 0, EmptyChunk))

\* memcpy reads a and b after the buffer has been allocated
concatenate_alloc(G, a, b) ==
    LET G1 == reallocate(G, 0, Len(G.heap[a].chars) + Len(G.heap[b].chars) + 1)
        G2 == [G1 EXCEPT !.uaf = @ \/ a \in G1.freed \/ b \in G1.freed]
    IN  take_string(G2, G.heap[a].chars \o G.heap[b].chars)

(***************************************************************************)
(* The collector driven through the VM's interface, as tests/vm/test_gc.c  *)
(* drives it: strings are allocated and pushed, values popped and stored   *)
(* in globals, collect_garbage() is called, string literals are compiled,  *)
(* OP_ADD concatenates, functions are built and interpreted, and free_vm() *)
(* ends the life of the VM.                                                *)
(***************************************************************************)
\* the strings of these runs
GcChars == { <<"a">>, <<"b", "c">> }

\* no access outside vm.stack happens in these runs
InBounds == [val |-> ZeroValue, fc |-> 0]

\* the machine of the current state with the allocator's fields
GMachine == Machine @@ mem

\* the machine as operation o finds it: the logs are empty
Begin(o) ==
    [GMachine EXCEPT !.op = o, !.inUse = {}, !.freedNow = {},
                     !.unlinkedNow = {}, !.sweptInUse = {}, !.collections = 0,
                     !.constantsMarked = 0]

\* the machine G becomes the next state
LoadG(G) ==
    /\ Load(G, "prompt")
    /\ mem' = [f \in DOMAIN mem |-> G[f]]
    /\ UNCHANGED <<mode, nInputs, lastInput, stages, result, prevResult,
                   globalSymbols, tcErrors, tcUaf, globalNames, parser,
                   checker>>

InitGC ==
    /\ mode = "gc"
    /\ pc = "prompt"
    /\ nInputs = 0
    /\ lastInput = "none"
    /\ stages = NoStages
    /\ result = NO_RESULT
    /\ prevResult = NO_RESULT
    /\ stack = <<>>
    /\ stackTop = 0
    /\ frames = <<>>
    /\ frameCount = 0
    /\ globals = <<>>
    /\ heap = <<>>
    /\ script = EmptyChunk
    /\ out = <<>>
    /\ errmsg = ""
    /\ trace = <<>>
    /\ popped = NoValue
    /\ oob = FALSE
    /\ globalSymbols = symbol_table_init
    /\ tcErrors = <<>>
    /\ tcUaf = FALSE
    /\ globalNames = <<>>
    /\ mem = InitMem
    /\ parser = NoParser
    /\ checker = NoChecker

\* ObjString* str = copy_string(..); and, when rooted, push(OBJ_VAL(str));
GcAllocString(chars, rooted) ==
    /\ mem.live
    /\ Len(heap) < MaxHeap
    /\ rooted => stackTop < MaxStack
    /\ \E G \in {copy_string(Begin("copy_string"), chars)} :
          LoadG(IF rooted THEN push(G, OBJ_VAL(Len(G.heap)), InBounds) ELSE G)

\* pop();
GcPop ==
    /\ mem.live
    /\ stackTop > 0
    /\ LoadG(pop(Begin("pop")))

\* OP_SET_GLOBAL: vm.globals[slot] = peek(0)
GcSetGlobal(slot) ==
    /\ mem.live
    /\ stackTop > 0
    /\ LoadG([Begin("set_global") EXCEPT
                 !.globals = SeqSet(@, slot + 1, peek(GMachine, 0, InBounds))])

\* collect_garbage();
GcCollect ==
    /\ mem.live
    /\ LoadG(collect_garbage(Begin("collect_garbage")))

\* compile_expression on the string literals of a program, from index i
RECURSIVE compile_literals(_, _, _)
compile_literals(G, literals, i) ==
    IF i > Len(literals) THEN G
    ELSE LET G1 == copy_string(G, literals[i])
             stringObj == Len(G1.heap)
             G2 == [G1 EXCEPT !.constants = Append(@, OBJ_VAL(stringObj))]
         IN  compile_literals(G2, literals, i + 1)

\* compile_ast on a program of string literal statements
GcCompile(literals) ==
    /\ mem.live
    /\ Len(heap) + Len(literals) <= MaxHeap
    /\ \E G \in {compile_literals([Begin("compile_ast") EXCEPT
                                      !.compiling = TRUE, !.constants = <<>>],
                                  literals, 1)} :
          LoadG([G EXCEPT !.compiling = FALSE])

\* OP_ADD on two strings
Op_ADD_alloc(G) ==
    LET b  == PopVal(G, InBounds).as
        G1 == pop(G)
        a  == PopVal(G1, InBounds).as
        G2 == [pop(G1) EXCEPT !.inUse = {a, b}]
        G3 == concatenate_alloc(G2, a, b)
    IN  push([G3 EXCEPT !.inUse = {}], OBJ_VAL(Len(G3.heap)), InBounds)

GcConcat ==
    /\ mem.live
    /\ stackTop >= 2
    /\ Len(heap) < MaxHeap
    /\ IS_STRING(heap, peek(GMachine, 0, InBounds))
    /\ IS_STRING(heap, peek(GMachine, 1, InBounds))
    /\ LoadG(Op_ADD_alloc(Begin("OP_ADD")))

\* a function with a name and a string constant, or the unnamed function
\* of a script, left on the stack: the function is pushed as soon as it
\* exists
declare_function(G, named) ==
    LET G1 == new_function(G)
        function == Len(G1.heap)
        G2 == push(G1, OBJ_VAL(function), InBounds)
        G3 == copy_string(G2, <<"f">>)
        name == Len(G3.heap)
        G4 == [G3 EXCEPT !.heap[function].name = name]
        G5 == copy_string(G4, <<"k">>)
        constant == Len(G5.heap)
    IN  IF named
        THEN [G5 EXCEPT !.heap[function].chunk =
                            add_constant(@, OBJ_VAL(constant))]
        ELSE G2

GcDeclareFunction(named) ==
    /\ mem.live
    /\ Len(heap) + (IF named THEN 3 ELSE 1) <= MaxHeap
    /\ stackTop < MaxStack
    /\ LoadG(declare_function(Begin("new_function"), named))

\* interpret(function) on the function on top of the stack, up to run()
GcInterpret ==
    /\ mem.live
    /\ stackTop > 0
    /\ IS_FUNCTION(heap, peek(GMachine, 0, InBounds))
    /\ LoadG(interpret(Begin("interpret"), peek(GMachine, 0, InBounds).as))

RECURSIVE free_vm_loop(_, _)
free_vm_loop(G, rest) ==
    IF rest = <<>> THEN G
    ELSE free_vm_loop(free_object(G, Head(rest)), Tail(rest))

free_vm(G) ==
    [free_vm_loop(G, G.objects) EXCEPT !.objects = <<>>, !.grayStack = <<>>]

\* free_vm(); at the end of the process
GcFreeVm ==
    /\ mem.live
    /\ LoadG([free_vm(Begin("free_vm")) EXCEPT !.live = FALSE])

NextGC ==
    \/ \E chars \in GcChars, rooted \in BOOLEAN : GcAllocString(chars, rooted)
    \/ GcPop
    \/ GcSetGlobal(0)
    \/ GcCollect
    \/ \E literals \in {<<c>> : c \in GcChars} \cup {<<c, d>> : c, d \in GcChars} :
          GcCompile(literals)
    \/ GcConcat
    \/ \E named \in BOOLEAN : GcDeclareFunction(named)
    \/ GcInterpret
    \/ GcFreeVm

SpecGC == InitGC /\ [][NextGC]_vars

(***************************************************************************)
(* Parser (parser.c).  The lexer's output is the token sequence            *)
(* parser.tokens, followed by TOKEN_EOF for ever; a token is [type,        *)
(* lexeme]; parser.pos is the index of parser->current.  errors counts the messages error_at_current has    *)
(* printed.  crash records a null-pointer dereference that ended the       *)
(* process, hang a loop that repeats the same iteration for ever; after    *)
(* either nothing more is read or reported.                                *)
(***************************************************************************)
TokenTypes ==
    {"TOKEN_ID", "TOKEN_VAR", "TOKEN_PRINT", "TOKEN_EQUALS", "TOKEN_PLUS",
     "TOKEN_SEMICOLON", "TOKEN_LEFT_BRACE", "TOKEN_RIGHT_BRACE",
     "TOKEN_LPAREN", "TOKEN_RPAREN"}

\* the outcomes of reading expr->type through a null expr
NullDeref == {"crash", "not_var_access"}

Stopped(P) == P.crash \/ P.hang

Token(type, lexeme) == [type |-> type, lexeme |-> lexeme]

\* parser->current.type
Current(P) ==
    IF Stopped(P) \/ P.pos > Len(P.tokens) THEN "TOKEN_EOF"
    ELSE P.tokens[P.pos].type

\* parser->current.lexeme, and parser->previous.lexeme after an advance
Lexeme(P) ==
    IF P.pos < 1 \/ P.pos > Len(P.tokens) THEN "" ELSE P.tokens[P.pos].lexeme

Previous(P) ==
    IF P.pos < 2 \/ P.pos - 1 > Len(P.tokens) THEN ""
    ELSE P.tokens[P.pos - 1].lexeme

\* strtol(buf, NULL, 10) on the integer lexemes of the sources
strtol(lexeme) ==
    CASE lexeme = "1" -> 1 [] lexeme = "2" -> 2 [] lexeme = "3" -> 3
      [] lexeme = "5" -> 5 [] OTHER -> 0

error_at_current(P) ==
    IF Stopped(P) THEN P
    ELSE [P EXCEPT !.had_error = 1, !.errors = @ + 1]

RECURSIVE advance_loop(_)
advance_loop(P) ==
    IF Current(P) # "TOKEN_ERROR" THEN P
    ELSE advance_loop([error_at_current(P) EXCEPT !.pos = @ + 1])

advance(P) ==
    IF Stopped(P) THEN P
    ELSE advance_loop([P EXCEPT !.pos = IF @ > Len(P.tokens) THEN @ ELSE @ + 1])

check(P, type) == Current(P) = type

consume(P, type) ==
    IF Current(P) = type THEN advance(P) ELSE error_at_current(P)

\* [p, matched]
match(P, types) ==
    IF Current(P) \in types
    THEN [p |-> advance(P), matched |-> TRUE]
    ELSE [p |-> P, matched |-> FALSE]

\* the levels with term and factor exchanged
LevelOps_Exchanged(level) ==
    CASE level = 1 -> {"TOKEN_BANG_EQUAL", "TOKEN_EQUAL_EQUAL"}
      [] level = 2 -> {"TOKEN_GREATER", "TOKEN_GREATER_EQUAL", "TOKEN_LESS",
                       "TOKEN_LESS_EQUAL"}
      [] level = 3 -> {"TOKEN_STAR", "TOKEN_SLASH", "TOKEN_PERCENT"}
      [] OTHER     -> {"TOKEN_PLUS", "TOKEN_MINUS"}

\* the operators of the binary levels: equality, comparison, term, factor
LevelOps(level) ==
    CASE level = 1 -> {"TOKEN_BANG_EQUAL", "TOKEN_EQUAL_EQUAL"}
      [] level = 2 -> {"TOKEN_GREATER", "TOKEN_GREATER_EQUAL", "TOKEN_LESS",
                       "TOKEN_LESS_EQUAL"}
      [] level = 3 -> {"TOKEN_PLUS", "TOKEN_MINUS"}
      [] OTHER     -> {"TOKEN_STAR", "TOKEN_SLASH", "TOKEN_PERCENT"}

assignOps ==
    {"TOKEN_EQUALS", "TOKEN_PLUS_EQUAL", "TOKEN_MINUS_EQUAL",
     "TOKEN_STAR_EQUAL", "TOKEN_SLASH_EQUAL", "TOKEN_PERCENT_EQUAL"}

\* each parsing function yields [p, node]: the parser after it and its result

RECURSIVE parse_expression(_), parse_assignment(_), parse_level(_, _),
          parse_level_loop(_, _, _), parse_unary(_), parse_primary(_),
          parse_arguments(_, _)

\* the do-while of the call branch of parse_primary
parse_arguments(P, args) ==
    With({ With({ IF m.matched
                  THEN parse_arguments(m.p, Append(args, a.node))
                  ELSE [p |-> m.p, node |-> Append(args, a.node)]
                  : m \in {match(a.p, {"TOKEN_COMMA"})} })
           : a \in {parse_expression(P)} })

parse_primary(P) ==
    IF check(P, "TOKEN_TRUE") THEN [p |-> advance(P), node |-> BoolLit(1)]
    ELSE IF check(P, "TOKEN_FALSE") THEN [p |-> advance(P), node |-> BoolLit(0)]
    ELSE IF check(P, "TOKEN_INT")
    THEN [p |-> advance(P), node |-> IntLit(strtol(Lexeme(P)))]
    ELSE IF check(P, "TOKEN_STRING")
    THEN [p |-> advance(P), node |-> StrLit(<<"s">>)]
    ELSE IF check(P, "TOKEN_ID")
    THEN IF check(advance(P), "TOKEN_LPAREN")
         THEN With({ [p    |-> consume(a.p, "TOKEN_RPAREN"),
                      node |-> CallExpr(Lexeme(P), a.node)]
                     : a \in {IF check(advance(advance(P)), "TOKEN_RPAREN")
                              THEN [p |-> advance(advance(P)), node |-> <<>>]
                              ELSE parse_arguments(advance(advance(P)), <<>>)} })
         ELSE [p |-> advance(P), node |-> Var(Lexeme(P))]
    ELSE IF check(P, "TOKEN_LPAREN")
    THEN With({ [p |-> consume(e.p, "TOKEN_RPAREN"), node |-> e.node]
                : e \in {parse_expression(advance(P))} })
    ELSE [p |-> error_at_current(P), node |-> NULL]

parse_unary(P) ==
    IF Current(P) \in {"TOKEN_MINUS", "TOKEN_BANG"}
    THEN With({ [p |-> operand.p, node |-> Unary(Current(P), operand.node)]
                : operand \in {parse_unary(advance(P))} })
    ELSE parse_primary(P)

\* the while (match(...)) loop of parse_equality .. parse_factor
parse_level_loop(P, node, level) ==
    IF Current(P) \notin LevelOps(level) THEN [p |-> P, node |-> node]
    ELSE With({ parse_level_loop(right.p,
                                 Binary(Current(P), node, right.node), level)
                : right \in {IF level = 4 THEN parse_unary(advance(P))
                             ELSE parse_level(advance(P), level + 1)} })

\* parse_equality (1), parse_comparison (2), parse_term (3), parse_factor (4)
parse_level(P, level) ==
    With({ parse_level_loop(left.p, left.node, level)
           : left \in {IF level = 4 THEN parse_unary(P)
                       ELSE parse_level(P, level + 1)} })

parse_equality(P) == parse_level(P, 1)

\* the switch of the desugaring with its default case only
binOpType_Default(op) == "TOKEN_PLUS"

\* the binary operator a compound assignment desugars to
binOpType(op) ==
    CASE op = "TOKEN_PLUS_EQUAL"    -> "TOKEN_PLUS"
      [] op = "TOKEN_MINUS_EQUAL"   -> "TOKEN_MINUS"
      [] op = "TOKEN_STAR_EQUAL"    -> "TOKEN_STAR"
      [] op = "TOKEN_SLASH_EQUAL"   -> "TOKEN_SLASH"
      [] op = "TOKEN_PERCENT_EQUAL" -> "TOKEN_PERCENT"
      [] OTHER                      -> "TOKEN_PLUS"

\* what  expr->type == NODE_VAR_ACCESS  does: "read" when expr is an object
parse_assignment_deref(expr, ub) ==
    IF IsNull(expr) THEN ub ELSE "read"

\* parse_assignment after  value = parse_assignment(parser);  op is the
\* assignment operator that was matched.  bad_target records that the left
\* side was no variable access, invalid_target that "Invalid assignment
\* target." was reported.
parse_assignment_target(expr, op, value, ub) ==
    IF Stopped(value.p) THEN [p |-> value.p, node |-> NULL]
    ELSE IF parse_assignment_deref(expr, ub) = "crash"
    THEN [p    |-> [value.p EXCEPT !.crash = TRUE, !.bad_target = TRUE],
          node |-> NULL]
    ELSE IF parse_assignment_deref(expr, ub) = "read"
            /\ expr.type = "NODE_VAR_ACCESS"
    THEN IF op # "TOKEN_EQUALS"
         THEN [p    |-> value.p,
               node |-> Assign(expr.name,
                               Binary(binOpType(op), expr, value.node))]
         ELSE [p |-> value.p, node |-> Assign(expr.name, value.node)]
    ELSE [p    |-> [error_at_current(value.p) EXCEPT !.bad_target = TRUE,
                                                     !.invalid_target = TRUE],
          node |-> expr]

parse_assignment(P) ==
    With({ IF Current(expr.p) \notin assignOps THEN expr
           ELSE With({ parse_assignment_target(expr.node, Current(expr.p),
                                               value, P.ub)
                       : value \in {parse_assignment(advance(expr.p))} })
           : expr \in {parse_equality(P)} })

parse_expression(P) == parse_assignment(P)

(***************************************************************************)
(* Statements.  The token alphabet has no if, while, return or func        *)
(* keyword, so parse_statement and parse_declaration go on to the          *)
(* branches below.                                                         *)
(***************************************************************************)
parse_print_statement(P) ==
    With({ [p    |-> consume(value.p, "TOKEN_SEMICOLON"),
            node |-> PrintStmt(value.node)]
           : value \in {parse_expression(P)} })

parse_var_declaration(P) ==
    With({ With({ [p    |-> consume(initializer.p, "TOKEN_SEMICOLON"),
                   node |-> VarDecl(Previous(P1), initializer.node)]
                  : initializer \in {IF check(P1, "TOKEN_EQUALS")
                                     THEN parse_expression(advance(P1))
                                     ELSE [p |-> P1, node |-> NULL]} })
           : P1 \in {consume(P, "TOKEN_ID")} })

\* the recovery of parse (endAtBrace FALSE) and of parse_block (TRUE)
RECURSIVE synchronize_loop(_, _)
synchronize_loop(P, endAtBrace) ==
    IF \/ check(P, "TOKEN_EOF")
       \/ check(P, "TOKEN_SEMICOLON")
       \/ (endAtBrace /\ check(P, "TOKEN_RIGHT_BRACE"))
    THEN P
    ELSE synchronize_loop(advance(P), endAtBrace)

synchronize(P, endAtBrace) ==
    With({ [(IF check(P1, "TOKEN_SEMICOLON") THEN advance(P1) ELSE P1)
               EXCEPT !.had_error = 0]
           : P1 \in {synchronize_loop(P, endAtBrace)} })

RECURSIVE parse_declaration(_), parse_statement(_), parse_block(_),
          parse_block_loop(_, _)

\* the while loop of parse_block.  parse_declaration reads nothing but the
\* tokens, so an iteration that adds a statement and leaves the current
\* token where it was is followed by the same iteration, without end.
parse_block_loop(P, statements) ==
    IF check(P, "TOKEN_RIGHT_BRACE") \/ check(P, "TOKEN_EOF")
    THEN [p |-> P, node |-> statements]
    ELSE With({ IF Stopped(stmt.p) THEN [p |-> stmt.p, node |-> statements]
                ELSE IF ~IsNull(stmt.node)
                THEN IF stmt.p.pos = P.pos
                     THEN [p    |-> [stmt.p EXCEPT !.hang = TRUE],
                           node |-> statements]
                     ELSE parse_block_loop(stmt.p,
                                           Append(statements, stmt.node))
                ELSE IF stmt.p.had_error # 0
                THEN parse_block_loop(synchronize(stmt.p, TRUE), statements)
                ELSE [p |-> stmt.p, node |-> statements]
                : stmt \in {parse_declaration(P)} })

parse_block(P) ==
    With({ [p    |-> consume(body.p, "TOKEN_RIGHT_BRACE"),
            node |-> Block(body.node)]
           : body \in {parse_block_loop(P, <<>>)} })

parse_statement(P) ==
    IF check(P, "TOKEN_LEFT_BRACE") THEN parse_block(advance(P))
    ELSE IF check(P, "TOKEN_PRINT") THEN parse_print_statement(advance(P))
    ELSE With({ [p    |-> consume(expr.p, "TOKEN_SEMICOLON"),
                 node |-> ExprStmt(expr.node)]
                : expr \in {parse_expression(P)} })

parse_declaration(P) ==
    IF check(P, "TOKEN_VAR") THEN parse_var_declaration(advance(P))
    ELSE parse_statement(P)

(***************************************************************************)
(* parse(source, pda_debug_mode), one iteration of its statement loop per  *)
(* step.  status is "running" inside the loop, "done" after a return,      *)
(* "crashed" when the process died in it.                                  *)
(***************************************************************************)
\* the sources given to parse: token sequences of at most MaxTokens tokens
Sources ==
    UNION { [1..n -> {Token(type, "x") : type \in TokenTypes}]
            : n \in 0..MaxTokens }

\* the state in which the front end is entered: m tells whether parse or
\* the lexer alone is run, Ps are the Parser structs to start from
FrontInit(m, Ps) ==
    /\ mode = m
    /\ pc = "prompt"
    /\ nInputs = 0
    /\ lastInput = "none"
    /\ stages = NoStages
    /\ result = NO_RESULT
    /\ prevResult = NO_RESULT
    /\ stack = <<>>
    /\ stackTop = 0
    /\ frames = <<>>
    /\ frameCount = 0
    /\ globals = <<>>
    /\ heap = <<>>
    /\ script = EmptyChunk
    /\ out = <<>>
    /\ errmsg = ""
    /\ trace = <<>>
    /\ popped = NoValue
    /\ oob = FALSE
    /\ globalSymbols = symbol_table_init
    /\ tcErrors = <<>>
    /\ tcUaf = FALSE
    /\ globalNames = <<>>
    /\ mem = InitMem
    /\ parser \in Ps
    /\ checker = NoChecker

\* parse is called on one of the sources S
ParseInit(S) ==
    FrontInit("parse", {[NoParser EXCEPT !.tokens = source] : source \in S})

InitParse == ParseInit(Sources)

(***************************************************************************)
(* Well-formed expression statements: operand (operator operand)* ";" and  *)
(* target assign-operator operand (operator operand)? ";", with the two    *)
(* sources of test_parser.c and the one of test_compound.c.                *)
(***************************************************************************)
Id(name) == Token("TOKEN_ID", name)
Number(digits) == Token("TOKEN_INT", digits)
Op(type) == Token(type, "")

Operands == {Id("x"), Number("2")}
BinaryOps ==
    {"TOKEN_EQUAL_EQUAL", "TOKEN_LESS", "TOKEN_PLUS", "TOKEN_MINUS",
     "TOKEN_STAR", "TOKEN_PERCENT"}
Targets == {"x", "y"}

\* operand (operator 2)^k
RECURSIVE Chains(_)
Chains(k) ==
    IF k = 0 THEN { <<a>> : a \in Operands }
    ELSE { c \o <<Op(o), Number("2")>> : c \in Chains(k - 1), o \in BinaryOps }

TestSources ==
    { <<Number("1"), Op("TOKEN_PLUS"), Number("2"), Op("TOKEN_STAR"), Number("3"),
        Op("TOKEN_SEMICOLON")>>,
      <<Number("1"), Op("TOKEN_PLUS"), Number("2"), Op("TOKEN_LESS"), Number("3"),
        Op("TOKEN_EQUAL_EQUAL"), Op("TOKEN_TRUE"), Op("TOKEN_SEMICOLON")>>,
      <<Id("x"), Op("TOKEN_PLUS_EQUAL"), Number("5"), Op("TOKEN_SEMICOLON")>> }

ExprSources ==
    UNION { { c \o <<Op("TOKEN_SEMICOLON")>> : c \in Chains(k) }
            : k \in 0..MaxOperators }
    \cup { <<Id(t), Op(o)>> \o c \o <<Op("TOKEN_SEMICOLON")>>
           : t \in Targets, o \in assignOps, c \in Chains(0) \cup Chains(1) }
    \cup TestSources

InitExpr == ParseInit(ExprSources)

ParserOnly ==
    UNCHANGED <<mode, pc, nInputs, lastInput, stages, result, prevResult,
                stack, stackTop, frames, frameCount, globals, heap, script,
                out, errmsg, trace, popped, oob, globalSymbols, tcErrors,
                tcUaf, globalNames, mem, checker>>

\* parser.had_error = 0; advance(&parser); program = new_program_node(NULL, 0);
ParseStart ==
    /\ mode = "parse"
    /\ parser.status = "idle"
    /\ parser' = advance([parser EXCEPT !.had_error = 0, !.status = "running"])
    /\ ParserOnly

\* one turn of  while (!check(&parser, TOKEN_EOF)) { ... }
ParseIteration(ub) ==
    /\ parser.status = "running"
    /\ ~check(parser, "TOKEN_EOF")
    /\ parser.statement_count < MaxStatements
    /\ \E stmt \in {parse_declaration([parser EXCEPT !.ub = ub])} :
         \E P \in {[stmt.p EXCEPT !.ub = NoParser.ub]} :
           parser' =
             IF P.crash THEN [P EXCEPT !.status = "crashed"]
             ELSE IF P.hang THEN [P EXCEPT !.status = "hung"]
             ELSE IF ~IsNull(stmt.node)
             THEN [P EXCEPT !.statements = Append(@, stmt.node),
                            !.statement_count = @ + 1]
             ELSE IF P.had_error # 0 THEN synchronize(P, FALSE)
             ELSE [P EXCEPT !.status = "after_loop"]
    /\ ParserOnly

\* if (parser.had_error) { free_ast(program); return NULL; } return program;
ParseReturn ==
    /\ \/ parser.status = "after_loop"
       \/ parser.status = "running" /\ check(parser, "TOKEN_EOF")
    /\ parser' = [parser EXCEPT
                    !.status = "done",
                    !.result = IF parser.had_error # 0 THEN "NULL"
                               ELSE "program"]
    /\ ParserOnly

NextParse ==
    \/ ParseStart
    \/ \E ub \in NullDeref : ParseIteration(ub)
    \/ ParseReturn

SpecParse == InitParse /\ [][NextParse]_vars

SpecExpr == InitExpr /\ [][NextParse]_vars

(***************************************************************************)
(* The lexer alone: get_next_token is called again and again on a source,  *)
(* as the lexer tests do.                                                  *)
(***************************************************************************)
LexSources == UNION { [1..n -> SourceChars] : n \in 0..MaxChars }

InitLex ==
    FrontInit("lex", {[NoParser EXCEPT !.lexer = init_lexer(source, beyond)]
                      : source \in LexSources, beyond \in Beyond})

\* Token t = get_next_token(&lexer);
GetNextToken ==
    /\ mode = "lex"
    /\ Len(parser.lexer.returned) < MaxCalls
    /\ \E r \in {get_next_token(parser.lexer)} :
         parser' = [parser EXCEPT
                      !.lexer = [r.lexer EXCEPT !.returned = Append(@, r.token)]]
    /\ ParserOnly

NextLex == GetNextToken

SpecLex == InitLex /\ [][NextLex]_vars

(***************************************************************************)
(* The symbol table alone (symbol.c): enter_scope, exit_scope and define   *)
(* are called in any order on the table in globalSymbols.  checker.scopes  *)
(* follows the calls as the scope rules state them.                        *)
(***************************************************************************)
SymTypes == {TYPE_INT, TYPE_STRING}

InitSym == FrontInit("sym", {NoParser})

SymOnly ==
    UNCHANGED <<mode, pc, nInputs, lastInput, stages, result, prevResult,
                stack, stackTop, frames, frameCount, globals, heap, script,
                out, errmsg, trace, popped, oob, tcErrors, tcUaf,
                globalNames, mem, parser>>

\* symbol_table_enter_scope(&table);
SymEnter ==
    /\ mode = "sym"
    /\ globalSymbols.current_depth < MaxDepth
    /\ globalSymbols' = symbol_table_enter_scope(globalSymbols)
    /\ checker' = [checker EXCEPT !.op = "enter", !.name = "", !.ok = 1,
                                  !.type = TYPE_VOID,
                                  !.scopes = Append(@, EmptyScope)]
    /\ SymOnly

\* symbol_table_exit_scope(&table);
SymExit ==
    /\ mode = "sym"
    /\ globalSymbols' = symbol_table_exit_scope(globalSymbols)
    /\ checker' = [checker EXCEPT
                     !.op = "exit", !.name = "", !.ok = 1, !.type = TYPE_VOID,
                     !.scopes = IF Len(@) > 1 THEN SubSeq(@, 1, Len(@) - 1)
                                ELSE @,
                     !.bottomExit = @ \/ globalSymbols.current_depth = 0]
    /\ SymOnly

\* the scopes after a definition of nm with type ty: refused when the
\* innermost scope has the name and is not the bottom one
ScopesDefine(scopes, nm, ty) ==
    IF scopes[Len(scopes)][nm] # TYPE_ERROR /\ Len(scopes) > 1 THEN scopes
    ELSE [scopes EXCEPT ![Len(scopes)][nm] = ty]

\* ok = symbol_table_define(&table, nm, len, ty);
SymDefine(nm, ty) ==
    /\ mode = "sym"
    /\ globalSymbols.count < MaxSymbols
    /\ \E d \in {symbol_table_define(globalSymbols, nm, ty)} :
         /\ globalSymbols' = d.table
         /\ checker' = [checker EXCEPT
                          !.op = "define", !.name = nm, !.type = ty,
                          !.ok = d.ok,
                          !.scopes = ScopesDefine(@, nm, ty)]
    /\ SymOnly

NextSym ==
    \/ SymEnter
    \/ SymExit
    \/ \E nm \in SymNames, ty \in SymTypes : SymDefine(nm, ty)

SpecSym == InitSym /\ [][NextSym]_vars

(***************************************************************************)
(* The type checker alone: typecheck_ast(root) is called once on a         *)
(* program, as test_typechecker.c does after parse.  The programs are an   *)
(* optional  var x = 1;  followed by one statement.                        *)
(***************************************************************************)
TcExprs ==
    {IntLit(1), BoolLit(1), Var("x"), Var("y"),
     Unary("TOKEN_BANG", IntLit(1)), Unary("TOKEN_BANG", BoolLit(1)),
     Unary("TOKEN_MINUS", Var("x")), Binary("TOKEN_PLUS", Var("x"), Var("y")),
     Binary("TOKEN_LESS", IntLit(1), IntLit(2)),
     Binary("TOKEN_EQUAL_EQUAL", IntLit(1), IntLit(2)),
     Binary("TOKEN_STAR", IntLit(1), IntLit(2))}

TcSimple ==
    {PrintStmt(e) : e \in TcExprs} \cup {ExprStmt(e) : e \in TcExprs}
    \cup {VarDecl("y", e) : e \in TcExprs}

TcConditions == {Var("x"), Var("y"), BoolLit(1), IntLit(1)}

TcStatements ==
    TcSimple
    \cup {Block(<<s>>) : s \in TcSimple}
    \cup {IfStmt(c, Block(<<s>>), NULL) : c \in TcConditions, s \in TcSimple}
    \cup {WhileStmt(c, Block(<<s>>)) : c \in TcConditions, s \in TcSimple}

TcPrograms ==
    {Program(p \o <<s>>) : p \in {<<>>, <<VarDecl("x", IntLit(1))>>},
                           s \in TcStatements}

InitTc == FrontInit("tc", {NoParser})

\* the DataType check_expression returns for the expression of the last
\* statement of the program, TYPE_VOID when that statement has none
LastExpressionType(gs, root) ==
    LET n    == Len(root.statements)
        last == root.statements[n]
        tc0  == [symbols |-> gs, had_error |-> 0, errors |-> <<>>]
        tc1  == check_statements(tc0, SubSeq(root.statements, 1, n - 1), 1)
    IN  CASE last.type \in {"NODE_PRINT_STMT", "NODE_EXPR_STMT"} ->
                check_expression(tc1, last.expression).type
          [] last.type = "NODE_VAR_DECL" ->
                check_expression(tc1, last.init).type
          [] OTHER -> TYPE_VOID

\* int valid = typecheck_ast(root);
TypecheckAst(root) ==
    /\ mode = "tc"
    /\ checker.op = "none"
    /\ \E t \in {typecheck_ast(globalSymbols, root)} :
         /\ globalSymbols' = t.globalSymbols
         /\ tcErrors' = t.errors
         /\ checker' = [checker EXCEPT
                          !.op = "typecheck_ast", !.ok = t.ok, !.root = root,
                          !.type = LastExpressionType(globalSymbols, root)]
    /\ UNCHANGED <<mode, pc, nInputs, lastInput, stages, result, prevResult,
                   stack, stackTop, frames, frameCount, globals, heap, script,
                   out, errmsg, trace, popped, oob, tcUaf, globalNames, mem,
                   parser>>

NextTc == \E root \in TcPrograms : TypecheckAst(root)

SpecTc == InitTc /\ [][NextTc]_vars

(***************************************************************************)
(* The prompt loop on programs with control flow: each input goes through  *)
(* run_source as in Spec, and run() is taken one instruction at a time.    *)
(***************************************************************************)
PrintOne == PrintStmt(IntLit(1))

\* var i = 0; while (i < 2) { print i; var i = i + 1; }
WhileCount ==
    Program(<<VarDecl("i", IntLit(0)),
              WhileStmt(Binary("TOKEN_LESS", Var("i"), IntLit(2)),
                        Block(<<PrintStmt(Var("i")),
                                VarDecl("i", Binary("TOKEN_PLUS", Var("i"), IntLit(1)))>>))>>)

VmInputs ==
    { [name |-> "if_true",     ast |-> Program(<<IfStmt(BoolLit(1), Block(<<PrintOne>>),
                                                        Block(<<PrintStmt(IntLit(2))>>))>>)],
      [name |-> "if_false",    ast |-> Program(<<IfStmt(BoolLit(0), Block(<<PrintOne>>),
                                                        Block(<<PrintStmt(IntLit(2))>>))>>)],
      [name |-> "if_less",     ast |-> Program(<<IfStmt(Binary("TOKEN_LESS", IntLit(2), IntLit(1)),
                                                        Block(<<PrintOne>>), NULL),
                                                 PrintStmt(IntLit(3))>>)],
      [name |-> "if_int",      ast |-> Program(<<IfStmt(IntLit(1), Block(<<PrintOne>>), NULL)>>)],
      [name |-> "while_false", ast |-> Program(<<WhileStmt(BoolLit(0), Block(<<PrintOne>>)),
                                                 PrintStmt(IntLit(3))>>)],
      [name |-> "while_count", ast |-> WhileCount],
      [name |-> "decl",        ast |-> Program(<<VarDecl("x", IntLit(1))>>)],
      [name |-> "print",       ast |-> Program(<<PrintOne>>)],
      [name |-> "expr",        ast |-> Program(<<ExprStmt(Binary("TOKEN_PLUS", IntLit(1), IntLit(2)))>>)],
      [name |-> "block",       ast |-> Program(<<Block(<<PrintOne, ExprStmt(IntLit(2))>>)>>)],
      [name |-> "decl_div0",   ast |-> Program(<<VarDecl("z", Binary("TOKEN_SLASH", IntLit(1), IntLit(0)))>>)],
      [name |-> "block_print_z", ast |-> Program(<<Block(<<PrintStmt(Var("z"))>>)>>)],
      [name |-> "decl_print",  ast |-> Program(<<VarDecl("z", IntLit(7)), PrintStmt(Var("z"))>>)] }

InitVm == FrontInit("vm", {NoParser})

NextVm ==
    \/ \E inp \in VmInputs : RunSource(inp)
    \/ Step

SpecVm == InitVm /\ [][NextVm]_vars

(***************************************************************************)
(* The compiler's table of global names over one session: compile_ast is   *)
(* called on one declaration or one read per input, on the table the       *)
(* earlier inputs of the session left.  The session starts from a table    *)
(* that earlier declarations of g1, g2, ... have filled to one of          *)
(* TableSizes entries.                                                     *)
(***************************************************************************)
GlobalName(i) == "g" \o ToString(i)

TableSizes == {0, 1, GLOBALS_MAX - 1, GLOBALS_MAX}

CompilerTables == { [i \in 1..n |-> GlobalName(i)] : n \in TableSizes }

DeclaredNames ==
    {GlobalName(1), GlobalName(2), GlobalName(GLOBALS_MAX - 1),
     GlobalName(GLOBALS_MAX), GlobalName(GLOBALS_MAX + 1)}

CompileInputs ==
    { [name |-> "var " \o nm, op |-> "declare", global |-> nm,
       ast |-> Program(<<VarDecl(nm, IntLit(1))>>)] : nm \in DeclaredNames }
    \cup
    { [name |-> "print " \o nm, op |-> "read", global |-> nm,
       ast |-> Program(<<PrintStmt(Var(nm))>>)] :
         nm \in {GlobalName(1), GlobalName(GLOBALS_MAX)} }

InitCompile ==
    /\ mode = "compile"
    /\ pc = "prompt"
    /\ nInputs = 0
    /\ lastInput = "none"
    /\ stages = NoStages
    /\ result = NO_RESULT
    /\ prevResult = NO_RESULT
    /\ stack = <<>>
    /\ stackTop = 0
    /\ frames = <<>>
    /\ frameCount = 0
    /\ globals = <<>>
    /\ heap = <<>>
    /\ script = EmptyChunk
    /\ out = <<>>
    /\ errmsg = ""
    /\ trace = <<>>
    /\ popped = NoValue
    /\ oob = FALSE
    /\ globalSymbols = symbol_table_init
    /\ tcErrors = <<>>
    /\ tcUaf = FALSE
    /\ globalNames \in CompilerTables
    /\ mem = InitMem
    /\ parser = NoParser
    /\ checker = NoChecker

\* compile_ast(ast, &chunk) of one input
CompileAst(inp) ==
    /\ mode = "compile"
    /\ nInputs < MaxInputs
    /\ nInputs' = nInputs + 1
    /\ lastInput' = inp.name
    /\ \E c \in {compile_ast(inp.ast, globalNames, heap)} :
         /\ globalNames' = c.globalSymbols
         /\ script' = c.chunk
         /\ heap' = c.heap
         /\ errmsg' = IF c.errors = <<>> THEN "" ELSE c.errors[1]
         /\ checker' = [checker EXCEPT !.op = inp.op, !.name = inp.global,
                                       !.ok = c.ok]
    /\ UNCHANGED <<mode, pc, stages, result, prevResult, stack, stackTop,
                   frames, frameCount, globals, out, trace, popped, oob,
                   globalSymbols, tcErrors, tcUaf, mem, parser>>

NextCompile == \E inp \in CompileInputs : CompileAst(inp)

SpecCompile == InitCompile /\ [][NextCompile]_vars

(***************************************************************************)
(* Properties                                                              *)
(***************************************************************************)
\* the opcode run() fetches next, -1 outside run()
NextInstruction == IF pc = "run" THEN ByteAt(Machine, 0) ELSE -1

\* the value `distance` slots below the one on top of the stack
Peek(distance) == SeqGet(stack, stackTop - distance)

\* what OP_PRINT appends to the output for an Int
PrintedInt(n) == Printed(Machine, INT_VAL(n))

\* the value in the global slot the compiler gave the name nm
GlobalValue(nm) ==
    SeqGet(globals, CHOOSE i \in 1..Len(globalNames) : globalNames[i] = nm)

\* C1: for every program the parser and the type checker accept, the
\* operand stack never holds more than STACK_MAX values.
C1_StackDepthWithinCapacity == stackTop <= STACK_MAX

\* C2: the number of call frames never exceeds FRAMES_MAX; a call of a
\* function with the right argument count made at FRAMES_MAX frames pushes
\* no frame and ends the run with the "Stack overflow." runtime error.
CallAtFrameLimit ==
    /\ NextInstruction = OP_CALL
    /\ frameCount = FRAMES_MAX
    /\ IS_FUNCTION(heap, Peek(ByteAt(Machine, 1)))
    /\ heap[Peek(ByteAt(Machine, 1)).as].arity = ByteAt(Machine, 1)

C2_FrameLimit ==
    [][ /\ frameCount' <= FRAMES_MAX
        /\ Len(frames') <= FRAMES_MAX
        /\ CallAtFrameLimit =>
              /\ frameCount' = 0
              /\ frames' = <<>>
              /\ errmsg' = "Stack overflow."
              /\ result' = INTERPRET_RUNTIME_ERROR ]_vars

C2_Witness ==
    /\ errmsg = "Stack overflow."
    /\ result = INTERPRET_RUNTIME_ERROR
    /\ Len(trace) = FRAMES_MAX
    /\ frameCount = 0

\* C3: OP_RETURN in a frame that is not the outermost one drops the frame,
\* puts the return value in the slot that held the callee and makes it the
\* top of the stack; the caller's slots below it and the caller's frames
\* are unchanged.
ReturnFromCall == NextInstruction = OP_RETURN /\ frameCount > 1

FinalExpressionValue ==
    CASE lastInput = "decl_use" -> INT_VAL(6)     \* var x = 5; x + 1;
      [] lastInput = "expr"     -> INT_VAL(3)     \* 1 + 2;
      [] lastInput = "h_add"    -> INT_VAL(1100)  \* add(400, 700);
      [] OTHER                  -> NoValue

C4_FinalValueLeftOnStack ==
    (pc = "prompt" /\ stages.ran /\ FinalExpressionValue # NoValue) =>
        /\ result = INTERPRET_OK
        /\ stackTop >= 1
        /\ stack[1] = FinalExpressionValue

\* C5: after a runtime error, at whatever call depth it was raised, the
\* operand stack is empty, there is no call frame and interpret has
\* returned INTERPRET_RUNTIME_ERROR.
C5_ErrorResetsVM ==
    (errmsg # "" \/ result = INTERPRET_RUNTIME_ERROR) =>
        /\ result = INTERPRET_RUNTIME_ERROR
        /\ stackTop = 0
        /\ frameCount = 0
        /\ frames = <<>>

C5_Witness ==
    /\ result = INTERPRET_RUNTIME_ERROR
    /\ errmsg = "Division by zero."
    /\ Len(trace) = 2
    /\ stackTop = 0
    /\ frameCount = 0

\* C6: a runtime error returns to the prompt instead of ending the session,
\* and the line entered next finds an empty stack and no frame, starts its
\* run with the script frame alone on an empty stack, and runs as usual
\* (print 1 + 2; prints 3 and returns INTERPRET_OK).
C6_SessionSurvivesRuntimeError ==
    [][ /\ (pc = "run" /\ result' = INTERPRET_RUNTIME_ERROR) => pc' = "prompt"
        /\ (pc = "prompt" /\ result = INTERPRET_RUNTIME_ERROR
               /\ nInputs' = nInputs + 1) =>
              /\ stackTop = 0
              /\ frameCount = 0
              /\ stages'.ran =>
                    /\ pc' = "run"
                    /\ stackTop' = 0
                    /\ frameCount' = 1
                    /\ frames'[1].ip = 0
                    /\ frames'[1].slots = 0
        /\ (prevResult' = INTERPRET_RUNTIME_ERROR /\ lastInput' = "print3"
               /\ pc' # "run") =>
              /\ pc' \in {"prompt", "exited"}
              /\ stages'.ran
              /\ result' = INTERPRET_OK
              /\ out' = <<PrintedInt(3)>> ]_vars

C6_Witness ==
    /\ prevResult = INTERPRET_RUNTIME_ERROR
    /\ lastInput = "print3"
    /\ pc = "prompt"
    /\ result = INTERPRET_OK
    /\ out = <<PrintedInt(3)>>

\* C7: OP_CALL whose callee is no function, or whose argument count is not
\* the function's arity, pushes no frame and ends the run with a runtime
\* error.
CalleeIsFunction == IS_FUNCTION(heap, Peek(ByteAt(Machine, 1)))

BadCall ==
    /\ NextInstruction = OP_CALL
    /\ \/ ~CalleeIsFunction
       \/ heap[Peek(ByteAt(Machine, 1)).as].arity # ByteAt(Machine, 1)

C7_BadCallPushesNoFrame ==
    [][ BadCall =>
          /\ frameCount' = 0
          /\ frames' = <<>>
          /\ result' = INTERPRET_RUNTIME_ERROR
          /\ pc' = "prompt"
          /\ errmsg' = IF CalleeIsFunction
                       THEN "Expected %d arguments but got %d."
                       ELSE "Can only call functions and classes." ]_vars

C7_Witness ==
    /\ lastInput = "h_arity"
    /\ errmsg = "Expected %d arguments but got %d."
    /\ result = INTERPRET_RUNTIME_ERROR
    /\ frameCount = 0
    /\ Len(trace) = 1

\* C8: OP_DIVIDE and OP_MODULO with a zero right operand do no arithmetic:
\* the run ends with a runtime error, "Division by zero." for OP_DIVIDE and
\* "Modulo by zero." for OP_MODULO, and nothing is pushed or printed.
ZeroDivisor(op) ==
    /\ NextInstruction = op
    /\ IS_INT(Peek(0)) /\ IS_INT(Peek(1))
    /\ AS_INT(Peek(0)) = 0

FailsWith(msg) ==
    /\ errmsg' = msg
    /\ result' = INTERPRET_RUNTIME_ERROR
    /\ pc' = "prompt"
    /\ stackTop' = 0
    /\ stack' = stack
    /\ out' = out

C8_ZeroDivisorFails ==
    [][ /\ ZeroDivisor(OP_DIVIDE) => FailsWith("Division by zero.")
        /\ ZeroDivisor(OP_MODULO) => FailsWith("Modulo by zero.") ]_vars

C8_Witness ==
    /\ lastInput = "h_mod0"
    /\ errmsg = "Modulo by zero."
    /\ result = INTERPRET_RUNTIME_ERROR
    /\ out = <<>>
    /\ stackTop = 0

\* C8 as stated: both OP_DIVIDE and OP_MODULO with a zero right operand end
\* the run with the "Division by zero" runtime error.
C8_DivisionByZeroForBoth ==
    [][ (ZeroDivisor(OP_DIVIDE) \/ ZeroDivisor(OP_MODULO)) =>
            FailsWith("Division by zero.") ]_vars

\* C9: a variable declared in a block is distinct from the variable of the
\* same name outside it: after var a = 10; { var a = 99; } a; the outer a
\* still holds 10 and the final expression a evaluates to 10.
C9_BlockVariableIsDistinct ==
    (lastInput = "scoping" /\ pc = "prompt" /\ result = INTERPRET_OK) =>
        /\ GlobalValue("a") = INT_VAL(10)
        /\ popped = INT_VAL(10)

\* C10: a depth-0 variable declared by an input that was type-checked and
\* run can be read by every later input of the session: print x; after
\* var x = 5; passes the type checker and prints 5.
Declared(nm) == \E i \in 1..Len(globalNames) : globalNames[i] = nm

C10_GlobalsPersistAcrossInputs ==
    (pc = "prompt" /\ lastInput = "print_x" /\ Declared("x")) =>
        /\ stages.checked
        /\ result = INTERPRET_OK
        /\ out = <<PrintedInt(5)>>

\* what later inputs see of a table: the entries below count
Visible(table) ==
    [count |-> table.count, current_depth |-> table.current_depth,
     capacity |-> table.capacity,
     symbols |-> [i \in 1..table.count |->
                     [name |-> table.symbols[i].name, type |-> table.symbols[i].type]]]

\* the step type-checks an input and reports an error
FailedTypeCheck ==
    /\ pc = "prompt" /\ mode = "repl"
    /\ nInputs' = nInputs + 1
    /\ tcErrors' # <<>>

\* C11: a type-checking run that reports an error leaves the persistent
\* symbol table as it was: the same visible symbols with the same types,
\* and its storage still allocated.
C11_FailedCheckLeavesTableIntact ==
    [][FailedTypeCheck =>
          /\ Visible(globalSymbols') = Visible(globalSymbols)
          /\ tcUaf' = tcUaf]_vars

\* the step is run_source on a new input
NewInput ==
    /\ pc = "prompt" /\ mode = "repl"
    /\ nInputs' = nInputs + 1

\* C12: the stages are gated.  A null AST reaches no stage; an input with
\* a type error is not compiled (the compiler's name table and the heap
\* are untouched) and not run; an input whose compilation failed is not
\* run; the VM starts only on a compiled input.
C12_StagesGated ==
    [][NewInput =>
          /\ (lastInput' = "syntax_error" =>
                  /\ tcErrors' = <<>>
                  /\ globalSymbols' = globalSymbols
                  /\ globalNames' = globalNames
                  /\ pc' = "prompt" /\ result' = NO_RESULT)
          /\ (tcErrors' # <<>> =>
                  /\ globalNames' = globalNames /\ heap' = heap
                  /\ pc' = "prompt" /\ result' = NO_RESULT)
          /\ (stages'.checked /\ ~stages'.compiled =>
                  /\ pc' = "prompt" /\ result' = NO_RESULT
                  /\ frameCount' = frameCount /\ stackTop' = stackTop)
          /\ (pc' = "run" =>
                  stages'.parsed /\ stages'.checked /\ stages'.compiled)]_vars

\* the compiler refused an input the type checker had passed, and the
\* prompt is back without a run
C12_Witness ==
    /\ stages.parsed /\ stages.checked /\ ~stages.compiled
    /\ tcErrors = <<>>
    /\ pc = "prompt" /\ result = NO_RESULT

\* the objects among the values s[1 .. n]
ObjectsOf(s, n) == {s[i].as : i \in {j \in 1..n : j <= Len(s) /\ IS_OBJ(s[j])}}

\* the objects the roots refer to: operand stack, globals, the functions
\* of the live call frames, the constant pool being compiled
Roots ==
    ObjectsOf(stack, stackTop) \cup ObjectsOf(globals, Len(globals))
    \cup {frames[i].function : i \in 1..frameCount}
    \cup (IF mem.compiling THEN ObjectsOf(mem.constants, Len(mem.constants)) ELSE {})

\* the objects an object of heap h refers to
Refs(h, o) ==
    IF h[o].type = OBJ_FUNCTION
    THEN ({h[o].name} \ {0})
         \cup ObjectsOf(h[o].chunk.constants, Len(h[o].chunk.constants))
    ELSE {}

Reachable == Roots \cup UNION {Refs(heap, o) : o \in Roots}

\* the step is a call of collect_garbage()
Collection == mode = "gc" /\ mem'.op = "collect_garbage"

\* C13: a collection frees no object reachable from a root (operand stack,
\* globals, functions of live call frames, constant pool being compiled).
C13_CollectionKeepsReachable ==
    [][Collection => \A o \in Reachable \ mem.freed : o \notin mem'.freed]_vars

\* C14: the name and the constants of a function that survives on the heap
\* list are never swept.
C14_FunctionKeepsNameAndConstants ==
    \A f \in 1..Len(heap) :
        (heap[f].type = OBJ_FUNCTION /\ \E i \in 1..Len(mem.objects) : mem.objects[i] = f)
            => Refs(heap, f) \cap mem.freed = {}

\* the objects on the heap list
Listed(m) == {m.objects[i] : i \in 1..Len(m.objects)}

\* C15: after a collection no unreachable object is on the heap list, and
\* bytesAllocated has decreased if some object was unreachable.
C15_CollectionReclaimsUnreachable ==
    [][Collection =>
          /\ Listed(mem') \subseteq Reachable
          /\ (Listed(mem) \ Reachable # {} =>
                  mem'.bytesAllocated < mem.bytesAllocated)]_vars

C17_OperandsSurviveAllocation ==
    mem.sweptInUse = {} /\ ~mem.uaf

\* the bytes added for an object when it was created
SizeOf(h, o) ==
    IF h[o].type = OBJ_STRING THEN SIZEOF_ObjString + Len(h[o].chars) + 1
    ELSE SIZEOF_ObjFunction

RECURSIVE SumSizes(_, _)
SumSizes(h, os) ==
    IF os = {} THEN 0
    ELSE LET o == CHOOSE x \in os : TRUE
         IN  SizeOf(h, o) + SumSizes(h, os \ {o})

\* C18: bytesAllocated is the total size of the objects on the heap list,
\* so it is zero when all objects have been freed.
C18_BytesMatchLiveObjects ==
    mode = "gc" => mem.bytesAllocated = SumSizes(heap, Listed(mem))

\* a turn of the statement loop of parse has been taken
StatementIteration ==
    /\ mode = "parse"
    /\ parser.status = "running"
    /\ ~check(parser, "TOKEN_EOF")
    /\ parser' # parser

\* C19: every turn of the top-level statement loop of parse consumes at
\* least one token, and no turn of the statement loop of a block is without
\* end: parse terminates on every finite source.
C19_EveryIterationConsumes ==
    [][StatementIteration => parser'.pos > parser.pos /\ ~parser'.hang]_vars

\* parse is over for an input on which a syntax error was reported
IllFormedOver ==
    mode = "parse" /\ parser.errors > 0 /\ parser.status # "running"

\* C20: when parse is over for an input on which a syntax error was
\* reported, it has returned null; it returns the program only if no error
\* was reported.
C20_IllFormedReturnsNull ==
    /\ IllFormedOver => parser.status = "done" /\ parser.result = "NULL"
    /\ parser.result = "program" => parser.errors = 0

\* C21: once an assignment whose left side is no variable access has been
\* parsed, "Invalid assignment target." has been reported and parse does not
\* return the program.
C21_InvalidTargetRejected ==
    (mode = "parse" /\ parser.bad_target) =>
        parser.invalid_target /\ parser.result # "program"

\* the node of an operand token
Leaf(token) ==
    CASE token.type = "TOKEN_ID"  -> Var(token.lexeme)
      [] token.type = "TOKEN_INT" -> IntLit(strtol(token.lexeme))
      [] OTHER -> BoolLit(IF token.type = "TOKEN_TRUE" THEN 1 ELSE 0)

\* the arithmetic operator a compound assignment operator stands for
ArithmeticOf(op) ==
    CASE op = "TOKEN_PLUS_EQUAL"    -> "TOKEN_PLUS"
      [] op = "TOKEN_MINUS_EQUAL"   -> "TOKEN_MINUS"
      [] op = "TOKEN_STAR_EQUAL"    -> "TOKEN_STAR"
      [] op = "TOKEN_SLASH_EQUAL"   -> "TOKEN_SLASH"
      [] op = "TOKEN_PERCENT_EQUAL" -> "TOKEN_PERCENT"

\* the tree of  e  in  x op= e ;  where e is an operand or
\* operand operator operand
RightSide(tokens) ==
    IF Len(tokens) = 4 THEN Leaf(tokens[3])
    ELSE Binary(tokens[4].type, Leaf(tokens[3]), Leaf(tokens[5]))

\* parse has returned for a source  x op= e ;
CompoundParsed ==
    /\ mode = "parse"
    /\ parser.status = "done"
    /\ Len(parser.tokens) >= 4
    /\ parser.tokens[1].type = "TOKEN_ID"
    /\ parser.tokens[2].type \in assignOps \ {"TOKEN_EQUALS"}

\* C22: the program parse returns for  x op= e ;  is the one statement
\* VarAssign(x, BinaryOp(op, VarAccess(x), e)), op the arithmetic operator
\* of the compound operator.
C22_CompoundDesugars ==
    CompoundParsed =>
        /\ parser.result = "program"
        /\ parser.statements =
             << ExprStmt(Assign(parser.tokens[1].lexeme,
                     Binary(ArithmeticOf(parser.tokens[2].type),
                            Var(parser.tokens[1].lexeme),
                            RightSide(parser.tokens)))) >>

\* y -= ... ; has been parsed
C22_Witness ==
    /\ CompoundParsed
    /\ parser.tokens[1].lexeme = "y"
    /\ parser.tokens[2].type = "TOKEN_MINUS_EQUAL"
    /\ Len(parser.tokens) = 6
    /\ parser.statements[1].expression.value.op = "TOKEN_MINUS"

\* how tightly a binary operator binds
PrecedenceOf(op) ==
    CASE op \in {"TOKEN_STAR", "TOKEN_SLASH", "TOKEN_PERCENT"} -> 4
      [] op \in {"TOKEN_PLUS", "TOKEN_MINUS"} -> 3
      [] op \in {"TOKEN_GREATER", "TOKEN_GREATER_EQUAL", "TOKEN_LESS",
                 "TOKEN_LESS_EQUAL"} -> 2
      [] OTHER -> 1

IsBinary(node) == node.type = "NODE_BINARY_OP"

\* no operand of a binary node is a looser binary node, and the right
\* operand is not one of the same level (the operators associate to the left)
RECURSIVE RespectsPrecedence(_)
RespectsPrecedence(node) ==
    IsBinary(node) =>
        /\ IsBinary(node.left) =>
               PrecedenceOf(node.left.op) >= PrecedenceOf(node.op)
        /\ IsBinary(node.right) =>
               PrecedenceOf(node.right.op) > PrecedenceOf(node.op)
        /\ RespectsPrecedence(node.left)
        /\ RespectsPrecedence(node.right)

\* the operands and operators of a tree from left to right
RECURSIVE InOrder(_)
InOrder(node) ==
    IF IsBinary(node)
    THEN InOrder(node.left) \o <<[operator |-> node.op]>> \o InOrder(node.right)
    ELSE <<node>>

\* the same of the tokens before the ";"
Flat(tokens) ==
    [i \in 1..(Len(tokens) - 1) |->
        IF tokens[i].type \in {"TOKEN_ID", "TOKEN_INT", "TOKEN_TRUE"}
        THEN Leaf(tokens[i]) ELSE [operator |-> tokens[i].type]]

\* parse has returned for a source  operand (operator operand)* ;
BinaryParsed ==
    /\ mode = "parse"
    /\ parser.status = "done"
    /\ Len(parser.tokens) >= 2
    /\ parser.tokens[2].type \notin assignOps

\* C23: the expression parse returns for  operand (operator operand)* ;
\* has the operands and operators of the source in their order, and in it
\* * / % bind tighter than + -, these tighter than the comparisons, these
\* tighter than == and !=.
C23_PrecedenceRespected ==
    BinaryParsed =>
        /\ parser.result = "program"
        /\ Len(parser.statements) = 1
        /\ parser.statements[1].type = "NODE_EXPR_STMT"
        /\ RespectsPrecedence(parser.statements[1].expression)
        /\ InOrder(parser.statements[1].expression) = Flat(parser.tokens)

\* 1 + 2 * 3; has been parsed to BinaryOp(+, 1, BinaryOp(*, 2, 3))
C23_Witness ==
    /\ BinaryParsed
    /\ Flat(parser.tokens) = <<IntLit(1), [operator |-> "TOKEN_PLUS"], IntLit(2),
                               [operator |-> "TOKEN_STAR"], IntLit(3)>>
    /\ parser.statements[1].expression =
         Binary("TOKEN_PLUS", IntLit(1),
                Binary("TOKEN_STAR", IntLit(2), IntLit(3)))

\* the tokens returned after the i-th are all TOKEN_EOF
OnlyEofAfter(returned, i) ==
    \A j \in (i + 1)..Len(returned) : returned[j].type = "TOKEN_EOF"

\* the i-th token returned reports an unterminated string
Unterminated(returned, i) ==
    /\ returned[i].type = "TOKEN_ERROR"
    /\ returned[i].lexeme = "Unterminated string."

\* C24: after the Error token of an unterminated string every call returns
\* TOKEN_EOF, after a TOKEN_EOF every call returns TOKEN_EOF, and the lexer
\* reads no byte after the terminator of the source.
C24_UnterminatedStringEnds ==
    mode = "lex" =>
        /\ \A i \in 1..Len(parser.lexer.returned) :
              (\/ Unterminated(parser.lexer.returned, i)
               \/ parser.lexer.returned[i].type = "TOKEN_EOF")
                  => OnlyEofAfter(parser.lexer.returned, i)
        /\ ~parser.lexer.pastEnd

InCurrentScope(table, nm) ==
    \E i \in 1..table.count :
        /\ table.symbols[i].name = nm
        /\ table.symbols[i].depth = table.current_depth

\* the type of the newest symbol of that name, TYPE_ERROR if there is none
Newest(table, nm) ==
    IF \A i \in 1..table.count : table.symbols[i].name # nm THEN TYPE_ERROR
    ELSE table.symbols[CHOOSE i \in 1..table.count :
                           /\ table.symbols[i].name = nm
                           /\ \A j \in (i + 1)..table.count :
                                  table.symbols[j].name # nm].type

\* the step is a call of symbol_table_define
DefineStep ==
    /\ mode = "sym"
    /\ checker'.op = "define"
    /\ <<globalSymbols, checker>>' # <<globalSymbols, checker>>

RECURSIVE ScopesLookup(_, _, _)
ScopesLookup(scopes, i, nm) ==
    IF i < 1 THEN TYPE_ERROR
    ELSE IF scopes[i][nm] # TYPE_ERROR THEN scopes[i][nm]
    ELSE ScopesLookup(scopes, i - 1, nm)

\* C27: as long as every exit closed a scope that was entered,
\* symbol_table_lookup gives each name the type of its innermost definition
\* in the open scopes, TYPE_ERROR if none: an inner definition shadows an
\* outer one and the outer one is back once the inner scope is exited.
C27_LookupInnermost ==
    (mode = "sym" /\ ~checker.bottomExit) =>
        \A nm \in SymNames :
            symbol_table_lookup(globalSymbols, nm) =
                ScopesLookup(checker.scopes, Len(checker.scopes), nm)

\* a scope that shadowed x has just been exited and x has its outer type
C27_Witness ==
    /\ mode = "sym" /\ ~checker.bottomExit
    /\ checker.op = "exit"
    /\ globalSymbols.current_depth = 0
    /\ globalSymbols.count = 1
    /\ Len(globalSymbols.symbols) >= 2
    /\ globalSymbols.symbols[1].name = "x"
    /\ globalSymbols.symbols[1].type = TYPE_INT
    /\ globalSymbols.symbols[2].name = "x"
    /\ globalSymbols.symbols[2].type = TYPE_STRING
    /\ symbol_table_lookup(globalSymbols, "x") = TYPE_INT

\* the symbols of the table that are not of depth d
RECURSIVE NotOfDepth(_, _, _)
NotOfDepth(table, i, d) ==
    IF i > table.count THEN <<>>
    ELSE (IF table.symbols[i].depth = d THEN <<>>
          ELSE <<[name |-> table.symbols[i].name,
                  type |-> table.symbols[i].type]>>)
         \o NotOfDepth(table, i + 1, d)

\* the step is a call of symbol_table_exit_scope
ExitStep ==
    /\ mode = "sym"
    /\ checker'.op = "exit"
    /\ <<globalSymbols, checker>>' # <<globalSymbols, checker>>

\* C28: symbol_table_exit_scope called at depth d > 0 leaves the symbols
\* that are not of depth d, in their order; called at depth 0 it removes
\* nothing.
C28_ExitRemovesExitedDepthOnly ==
    [][ExitStep =>
         Visible(globalSymbols').symbols =
            IF globalSymbols.current_depth > 0
            THEN NotOfDepth(globalSymbols, 1, globalSymbols.current_depth)
            ELSE Visible(globalSymbols).symbols]_vars

\* the names an expression reads
RECURSIVE Reads(_)
Reads(expr) ==
    CASE expr.type = "NODE_VAR_ACCESS" -> {expr.name}
      [] expr.type = "NODE_UNARY_OP"   -> Reads(expr.operand)
      [] expr.type = "NODE_BINARY_OP"  -> Reads(expr.left) \cup Reads(expr.right)
      [] OTHER -> {}

\* some statement from the i-th on, or a statement nested in one, reads a
\* name that no declaration before it in an enclosing scope introduced;
\* defined are the names introduced so far
RECURSIVE ReadsUndefined(_, _, _)
ReadsUndefined(stmts, i, defined) ==
    IF i > Len(stmts) THEN FALSE
    ELSE CASE stmts[i].type = "NODE_VAR_DECL" ->
                \/ ~(Reads(stmts[i].init) \subseteq defined)
                \/ ReadsUndefined(stmts, i + 1, defined \cup {stmts[i].name})
           [] stmts[i].type \in {"NODE_PRINT_STMT", "NODE_EXPR_STMT"} ->
                \/ ~(Reads(stmts[i].expression) \subseteq defined)
                \/ ReadsUndefined(stmts, i + 1, defined)
           [] stmts[i].type = "NODE_BLOCK" ->
                \/ ReadsUndefined(stmts[i].statements, 1, defined)
                \/ ReadsUndefined(stmts, i + 1, defined)
           [] stmts[i].type = "NODE_IF" ->
                \/ ~(Reads(stmts[i].condition) \subseteq defined)
                \/ ReadsUndefined(<<stmts[i].thenBranch>>, 1, defined)
                \/ ReadsUndefined(stmts, i + 1, defined)
           [] stmts[i].type = "NODE_WHILE" ->
                \/ ~(Reads(stmts[i].condition) \subseteq defined)
                \/ ReadsUndefined(<<stmts[i].body>>, 1, defined)
                \/ ReadsUndefined(stmts, i + 1, defined)
           [] OTHER -> ReadsUndefined(stmts, i + 1, defined)

\* typecheck_ast has been called on a program
Typechecked == mode = "tc" /\ checker.op = "typecheck_ast"

\* C29: typecheck_ast rejects every program in which a variable is read
\* that has no visible definition, whether the read is in a top-level
\* statement, in a block, or in the condition or body of an if or a while.
C29_UndefinedReadRejected ==
    (Typechecked /\ ReadsUndefined(checker.root.statements, 1, {}))
        => checker.ok = 0

\* the program is the one statement  print !e;  or  !e;  with e a literal
BangOfLiteral ==
    /\ Typechecked
    /\ Len(checker.root.statements) = 1
    /\ checker.root.statements[1].type \in {"NODE_PRINT_STMT", "NODE_EXPR_STMT"}
    /\ checker.root.statements[1].expression.type = "NODE_UNARY_OP"
    /\ checker.root.statements[1].expression.op = "TOKEN_BANG"
    /\ checker.root.statements[1].expression.operand.type
          \in {"NODE_INT_LITERAL", "NODE_BOOL_LITERAL"}

\* C30: a program that applies ! to a literal is accepted if and only if
\* the literal is a Bool: ! on an integer is rejected.
C30_BangNeedsBool ==
    BangOfLiteral =>
        (checker.ok = 1 <=>
            checker.root.statements[1].expression.operand.type
                = "NODE_BOOL_LITERAL")

ComparisonOps == {"TOKEN_LESS", "TOKEN_LESS_EQUAL", "TOKEN_GREATER",
                  "TOKEN_GREATER_EQUAL"}
EqualityOps   == {"TOKEN_EQUAL_EQUAL", "TOKEN_BANG_EQUAL"}
ArithmeticOps == {"TOKEN_PLUS", "TOKEN_MINUS", "TOKEN_STAR", "TOKEN_SLASH",
                  "TOKEN_PERCENT"}

\* the last statement of the checked program, and its expression
LastStatement == checker.root.statements[Len(checker.root.statements)]

\* the program ends in  print e;  or  e;  with e a binary operation on two
\* integer literals
BinaryOfInts ==
    /\ Typechecked
    /\ LastStatement.type \in {"NODE_PRINT_STMT", "NODE_EXPR_STMT"}
    /\ LastStatement.expression.type = "NODE_BINARY_OP"
    /\ LastStatement.expression.left.type = "NODE_INT_LITERAL"
    /\ LastStatement.expression.right.type = "NODE_INT_LITERAL"

\* C31: on two Int operands a comparison and an equality test have static
\* type Bool and an arithmetic operation has type Int; the checker never
\* gives Int to a comparison or an equality test.
C31_ComparisonIsBool ==
    BinaryOfInts =>
        /\ LastStatement.expression.op \in ComparisonOps \cup EqualityOps
              => checker.type = TYPE_BOOL
        /\ LastStatement.expression.op \in ArithmeticOps
              => checker.type = TYPE_INT

\* the program ends in an if or a while whose condition is an integer
\* literal
IntCondition ==
    /\ Typechecked
    /\ LastStatement.type \in {"NODE_IF", "NODE_WHILE"}
    /\ LastStatement.condition.type = "NODE_INT_LITERAL"

\* C32: an if or while statement whose condition is not of type Bool is
\* rejected by typecheck_ast.
C32_NonBoolConditionRejected == IntCondition => checker.ok = 0

\* the expression is built of integer literals, variable reads, unary minus
\* and arithmetic only, so that its only possible fault is an undefined read
RECURSIVE IntegerOnly(_)
IntegerOnly(expr) ==
    CASE expr.type \in {"NODE_INT_LITERAL", "NODE_VAR_ACCESS"} -> TRUE
      [] expr.type = "NODE_UNARY_OP" ->
            expr.op = "TOKEN_MINUS" /\ IntegerOnly(expr.operand)
      [] expr.type = "NODE_BINARY_OP" ->
            /\ expr.op \in ArithmeticOps
            /\ IntegerOnly(expr.left) /\ IntegerOnly(expr.right)
      [] OTHER -> FALSE

\* the number of variable reads in the expression
RECURSIVE ReadCount(_)
ReadCount(expr) ==
    CASE expr.type = "NODE_VAR_ACCESS" -> 1
      [] expr.type = "NODE_UNARY_OP"   -> ReadCount(expr.operand)
      [] expr.type = "NODE_BINARY_OP"  -> ReadCount(expr.left) + ReadCount(expr.right)
      [] OTHER -> 0

\* the program is one statement  print e;  or  e;  over integers, checked
\* with an empty table: every variable read in e is a faulty sub-expression
OneFaultyStatement ==
    /\ Typechecked
    /\ Len(checker.root.statements) = 1
    /\ LastStatement.type \in {"NODE_PRINT_STMT", "NODE_EXPR_STMT"}
    /\ IntegerOnly(LastStatement.expression)

\* C33: a type Error propagates upward silently: the enclosing expressions
\* and the statement add no diagnostic, so the checker prints exactly one
\* "Type Error" line for each faulty sub-expression.
C33_ErrorPropagatesSilently ==
    OneFaultyStatement => Len(tcErrors) = ReadCount(LastStatement.expression)

\* C34: outside of a collection every object on the heap list has its mark
\* bit clear, in every run that has not touched freed memory; so a
\* collection starts from an unmarked heap, and after collect_garbage no
\* object stays on the list but those reachable from the roots.
C34_UnmarkedOutsideCollection ==
    (mode = "gc" /\ ~mem.uaf) =>
        /\ \A object \in Listed(mem) : ~heap[object].isMarked
        /\ mem.op = "collect_garbage" => Listed(mem) \subseteq Reachable

\* an allocation has run a collection, which only happens after an earlier
\* collection lowered nextGC: this second collection has freed an object
\* and has kept another, whose mark bit the first one had cleared
C34_Witness ==
    /\ mode = "gc" /\ ~mem.uaf
    /\ mem.op = "copy_string"
    /\ mem.collections >= 1
    /\ mem.freedNow # {}
    /\ Len(mem.objects) >= 2

\* how many times object stands on the heap list
Occurrences(object) ==
    Cardinality({i \in 1..Len(mem.objects) : mem.objects[i] = object})

\* C35: every object that has been allocated and not freed stands exactly
\* once on the heap list, and no freed object stands on it, after any
\* interleaving of allocations, collections and free_vm.
C35_ListHoldsLiveObjectsOnce ==
    mode = "gc" =>
        \A object \in 1..Len(heap) :
            Occurrences(object) = (IF object \in mem.freed THEN 0 ELSE 1)

\* the program of the input that runs
AstOf(name) == (CHOOSE inp \in VmInputs : inp.name = name).ast

\* the number of operand bytes that follow an opcode
OperandBytes(instruction) ==
    IF instruction \in {OP_JUMP, OP_JUMP_IF_FALSE, OP_LOOP} THEN 2
    ELSE IF instruction \in {OP_CONSTANT, OP_GET_GLOBAL, OP_SET_GLOBAL,
                             OP_GET_LOCAL, OP_SET_LOCAL, OP_CALL} THEN 1
    ELSE 0

\* the offsets at which an instruction of code starts, from offset i on
RECURSIVE InstructionStarts(_, _)
InstructionStarts(code, i) ==
    IF i >= Len(code) THEN {}
    ELSE {i} \cup InstructionStarts(code, i + 1 + OperandBytes(code[i + 1]))

\* the offsets at which the top-level statements of root start in the chunk
\* compile_program builds, and the offset of its final OP_RETURN
StatementStarts(root) ==
    {Len(compile_block([chunk |-> EmptyChunk, hadError |-> 0,
                        globalSymbols |-> globalNames, heap |-> <<>>,
                        errors |-> <<>>],
                       SubSeq(root.statements, 1, k), 1).chunk.code)
        : k \in 0..Len(root.statements)}

\* the statement, or a statement nested in it, is a variable declaration
RECURSIVE Declares(_)
Declares(stmt) ==
    CASE stmt.type = "NODE_VAR_DECL" -> TRUE
      [] stmt.type \in {"NODE_BLOCK", "NODE_PROGRAM"} ->
            \E i \in 1..Len(stmt.statements) : Declares(stmt.statements[i])
      [] stmt.type = "NODE_IF" ->
            Declares(stmt.thenBranch) \/ Declares(stmt.elseBranch)
      [] stmt.type = "NODE_WHILE" -> Declares(stmt.body)
      [] OTHER -> FALSE

\* run() is about to fetch an instruction of the script
Running == mode = "vm" /\ pc = "run" /\ Len(frames) = 1

\* its offset and its opcode
Ip == frames[1].ip
Instruction == script.code[Ip + 1]

\* C36: in the code of if and while statements the condition is removed
\* from the stack exactly once on every path: OP_JUMP_IF_FALSE leaves it
\* and the instruction executed next, on either path, is the OP_POP that
\* removes it, so that a program without declarations is at depth 0 at
\* every statement start; OP_JUMP and OP_LOOP land on the start of a
\* statement, and every instruction fetched starts on an instruction
\* boundary.
C36_ConditionPoppedOnce ==
    [][Running =>
         /\ pc' = "run" =>
               /\ frames'[1].ip \in InstructionStarts(script.code, 0)
               /\ (~Declares(AstOf(lastInput))
                      /\ frames'[1].ip \in StatementStarts(AstOf(lastInput)))
                    => stackTop' = 0
         /\ Instruction = OP_JUMP_IF_FALSE =>
               /\ pc' = "run"
               /\ script.code[frames'[1].ip + 1] = OP_POP
               /\ stackTop' = stackTop
         /\ Instruction \in {OP_JUMP, OP_LOOP} =>
               /\ pc' = "run"
               /\ frames'[1].ip \in StatementStarts(AstOf(lastInput))]_vars

\* the loop of while_count is back at its start after a full iteration:
\* the condition was left true, popped, and OP_LOOP has jumped back
C36_Witness ==
    /\ Running
    /\ lastInput = "while_count"
    /\ Ip \in StatementStarts(AstOf(lastInput)) \ {0}
    /\ SeqGet(globals, 1) = INT_VAL(1)
    /\ Instruction = OP_GET_GLOBAL
    /\ out = <<PrintedInt(0)>>

\* C38: every complete statement leaves the depth of the operand stack as
\* it found it: whenever run() is at the start of a top-level statement,
\* or at the final OP_RETURN, the stack is as deep as when the program
\* started, however many statements and loop iterations have run.
C38_StatementsKeepDepth ==
    (Running /\ Ip \in StatementStarts(AstOf(lastInput))) => stackTop = 0

\* C39: no instruction of a compiled program pops or peeks below the base
\* of the operand stack, the final OP_RETURN of the script included.
C39_NoPopBelowBase == mode = "vm" => (stackTop >= 0 /\ ~oob)

\* the global slot the OP_GET_GLOBAL or OP_SET_GLOBAL at Ip names
Slot == script.code[Ip + 2] + 1

\* C40: whenever a program the type checker accepted executes
\* OP_GET_GLOBAL, the slot it reads was written by an OP_SET_GLOBAL run
\* earlier in the session: it lies inside the part of vm.globals that
\* stores have reached and holds a stored value, not the initial one, also
\* when the input that declared the name ended in a runtime error before
\* its store.  (No declaration of VmInputs stores the initial value.)
C40_ReadSlotWasWritten ==
    (Running /\ Instruction = OP_GET_GLOBAL) =>
        /\ Slot \in 1..Len(globals)
        /\ globals[Slot] # ZeroValue

\* the slot the compiler's table gives the name nm, 0 when it has none
SlotOf(names, nm) ==
    IF \E i \in 1..Len(names) : names[i] = nm
    THEN CHOOSE i \in 1..Len(names) : names[i] = nm
    ELSE 0

\* C37: over the compilations of one session the table of global names
\* only grows at its end, so that a name keeps the slot it was first
\* given; no two slots hold the same name; and a declaration of a name
\* the table already holds compiles, to a store into the slot the name
\* has, and leaves the table as it was, also when all 256 slots are in use.
C37_GlobalSlotsStable ==
    [][(mode = "compile" /\ nInputs' = nInputs + 1) =>
         /\ Len(globalNames') >= Len(globalNames)
         /\ \A i \in 1..Len(globalNames) : globalNames'[i] = globalNames[i]
         /\ \A i, j \in 1..Len(globalNames') :
               globalNames'[i] = globalNames'[j] => i = j
         /\ (checker'.op = "declare" /\ SlotOf(globalNames, checker'.name) # 0) =>
               /\ checker'.ok = 1
               /\ globalNames' = globalNames
               /\ script'.code = <<OP_CONSTANT, 0, OP_SET_GLOBAL,
                                   SlotOf(globalNames, checker'.name) - 1,
                                   OP_RETURN>>]_vars

====
